---- MODULE Spec2Model ----
(***************************************************************************)
(* Digital deposit slip (DRID) lifecycle of the precision-receipt backend. *)
(*                                                                         *)
(* The store (tables digital_deposit_slips, transactions, receipts) is     *)
(* shared by request handlers that each run in their own SQLAlchemy        *)
(* session.  A handler is a sequence of steps separated by its store reads *)
(* and its db.commit() calls; steps of different handlers interleave.      *)
(* A commit writes the columns the handler assigned (UPDATE ... WHERE id); *)
(* there is no row lock and no version column.  A handler that refuses a   *)
(* request returns an error and leaves every variable as it is; what each  *)
(* handler answers is given by its ...Outcome operator.                    *)
(*                                                                         *)
(* Not carried: the *_at columns (each is assigned together with its *_by  *)
(* column), validation_attempts / last_validation_at, and the descriptive  *)
(* columns copied from the directory.                                      *)
(***************************************************************************)
EXTENDS Integers, Sequences, FiniteSets, TLC

(* ---- bounds of the model ---- *)
MaxTokens == 1          \* slips issued under Spec
MaxIssued == 2          \* slips issued under SpecIssue
MaxTicks == 2           \* clock steps
MaxTxns == 2            \* rows of the transactions table
TickMinutes == 60       \* minutes per clock step
MaxDridSlips == 3       \* slips issued under SpecDrid

(* ---- program constants ---- *)
DEFAULT_VALIDITY_MINUTES == 60
OTP_EXPIRY_MINUTES == 5
MAX_ATTEMPTS == 3
TIMEOUT_MINUTES == 30

Workers == {"w1", "w2"}

\* the user ids of the tellers that call the teller endpoints
Tellers == {"t1"}

\* directory: customers (by CNIC) and the accounts they own
Customers == {"c1", "c2"}
Accounts == {"a1", "a2"}
Owner == [a \in Accounts |-> IF a = "a1" THEN "c1" ELSE "c2"]

TransactionTypes == {"CASH_DEPOSIT", "CHEQUE_DEPOSIT"}
\* requested validity: 0 stands for None (not requested)
ValidityInputs == {0, 30}

DepositSlipStatus == {"INITIATED", "RETRIEVED", "VERIFIED", "PROCESSING",
                      "COMPLETED", "EXPIRED", "CANCELLED", "REJECTED"}
ActiveStatuses == {"INITIATED", "RETRIEVED", "VERIFIED"}
TerminalStatuses == {"COMPLETED", "EXPIRED", "CANCELLED", "REJECTED"}

NULL == "NULL"

VARIABLES
    slips,          \* table digital_deposit_slips; the drid of a row is its index
    transactions,   \* table transactions; the id of a row is its index
    receipts,       \* table receipts
    clock,          \* datetime.utcnow(), in minutes
    procs,          \* per worker: the handler it is running and its locals
    key_files,      \* ./keys: which key pair each of the two PEM files holds
    signature_service, \* per process: the class attributes of SignatureService
    _otp_store,     \* otp_service.py: the in-memory OTP records by "drid:phone"
    _sessions,      \* SessionManager._sessions: WhatsApp sessions by phone
    users           \* table users: the login columns of each user

vars == <<slips, transactions, receipts, clock, procs, key_files,
         signature_service, _otp_store, _sessions, users>>
store == <<slips, transactions, receipts, clock>>
keys == <<key_files, signature_service>>
\* the state of the services around the deposit slip engine
others == <<_otp_store, _sessions, users>>

Idle == [pc |-> "idle", drid |-> 0, acct |-> "", cust |-> "", kind |-> "",
         val |-> 0, seen |-> 0, txn |-> 0, by |-> NULL, batch |-> {},
         authorization_captured |-> FALSE, candidate |-> "",
         validity_minutes |-> 0]

Drids == 1..Len(slips)

\* the drids a request may name: the stored ones and one that is unknown
DridInputs == 1..(Len(slips) + 1)

\* what a handler answers at a decision point: ok to go on, or the error it
\* returns (with the status or the drid its message names)
Proceed == [ok |-> TRUE, message |-> "", status |-> "", drid |-> 0]
Refuse(m, st, d) == [ok |-> FALSE, message |-> m, status |-> st, drid |-> d]

\* signature_service.py lines 40-42: the class attributes of a fresh process;
\* a key pair is named by a number from 1, 0 is None (for a file: no file)
Uninitialized == [_initialized |-> FALSE, _private_key |-> 0, _public_key |-> 0]

\* the key_files of a fresh installation: neither PEM file exists, no key
\* pair has been generated
NoKeyFiles == [private |-> 0, public |-> 0, generated |-> 0]

\* Python's None where a key, a signature or a timestamp may be missing; a
\* value that is there is held as <<value>>
None == <<>>

\* an empty dict
NoEntries == [k \in {} |-> None]

\* the dict store after store[key] = value
Put(dict, key, value) == [k \in DOMAIN dict \cup {key} |-> IF k = key THEN value ELSE dict[k]]

\* the dict store after del store[key] for every key in gone
Del(dict, gone) == [k \in DOMAIN dict \ gone |-> dict[k]]

\* the usernames of the users table and the passwords they were given
Usernames == {"teller1"}
Password == [u \in Usernames |-> "pw-teller1"]

\* core/security.py hash_password and verify_password
hash_password(password) == "$2b$" \o password
verify_password(password, password_hash) == hash_password(password) = password_hash

\* a user as the admin endpoints create it: active, not locked, no failed login
NewUser(u) == [password_hash |-> hash_password(Password[u]), is_active |-> TRUE, is_locked |-> FALSE, failed_login_attempts |-> 0, last_login_at |-> None]

\* the handler run by w returns
Return(w) == procs' = [procs EXCEPT ![w] = Idle]

\* the handler run by w moves on to its next step
Goto(w, loc) == procs' = [procs EXCEPT ![w] = loc]

SetSlip(d, s) == slips' = [slips EXCEPT ![d] = s]

Init ==
    /\ slips = <<>>
    /\ transactions = <<>>
    /\ receipts = <<>>
    /\ clock = 0
    /\ procs = [w \in Workers |-> Idle]
    /\ key_files = NoKeyFiles
    /\ signature_service = [w \in Workers |-> Uninitialized]
    /\ _otp_store = NoEntries
    /\ _sessions = NoEntries
    /\ users = [u \in Usernames |-> NewUser(u)]

(* ---- the clock ---- *)
Tick ==
    /\ clock + TickMinutes <= MaxTicks * TickMinutes
    /\ clock' = clock + TickMinutes
    /\ UNCHANGED <<slips, transactions, receipts, procs, keys, others>>

(* ---- OTPService (services/otp_service.py) ---- *)

\* the phone numbers as callers write them
PhoneInputs == {"03001234567", "whatsapp:+923001234567", "+923331234567"}

\* lines 42-61: strip the whatsapp: prefix, put +92 in front of a national number
_normalize_phone(phone) ==
    CASE phone = "03001234567" -> "+923001234567"
      [] phone = "whatsapp:+923001234567" -> "+923001234567"
      [] OTHER -> phone

\* lines 29-31: the codes generate_otp can draw
OtpCodes == {"11111", "22222"}

\* lines 83 and 134: otp_key = f"{drid}:{phone}"
OtpKey(phone_number, drid) == ToString(drid) \o ":" \o _normalize_phone(phone_number)

\* lines 84-92: the record send_otp stores
NewOtp(phone_number, drid, otp) ==
    [otp |-> otp, phone |-> _normalize_phone(phone_number), drid |-> drid,
     created_at |-> clock, expires_at |-> clock + OTP_EXPIRY_MINUTES,
     attempts |-> 0, verified |-> FALSE]

\* lines 75-117: the record is stored before the SMS is sent, so it is there
\* whether send_otp returns True or (Twilio raising) False
SendOtp(phone_number, drid, otp) ==
    /\ _otp_store' = Put(_otp_store, OtpKey(phone_number, drid), NewOtp(phone_number, drid, otp))
    /\ UNCHANGED <<store, procs, keys, _sessions, users>>

\* lines 136-166: what verify_otp returns
VerifyOtpOutcome(phone_number, drid, otp) ==
    LET otp_key == OtpKey(phone_number, drid) IN
    IF otp_key \notin DOMAIN _otp_store
    THEN [success |-> FALSE, message |-> "OTP not found. Please request a new OTP."]
    ELSE IF _otp_store[otp_key].verified
    THEN [success |-> TRUE, message |-> "OTP already verified"]
    ELSE IF clock > _otp_store[otp_key].expires_at
    THEN [success |-> FALSE, message |-> "OTP has expired. Please request a new OTP."]
    ELSE IF _otp_store[otp_key].attempts >= MAX_ATTEMPTS
    THEN [success |-> FALSE, message |-> "Maximum attempts exceeded. Please request a new OTP."]
    ELSE IF _otp_store[otp_key].otp = otp
    THEN [success |-> TRUE, message |-> "OTP verified successfully"]
    ELSE [success |-> FALSE,
          message |-> "Invalid OTP. "
                      \o ToString(MAX_ATTEMPTS - (_otp_store[otp_key].attempts + 1))
                      \o " attempts remaining."]

\* lines 132-166: what verify_otp does to the store
VerifyOtp(phone_number, drid, otp) ==
    LET otp_key == OtpKey(phone_number, drid)
        otp_data == _otp_store[otp_key] IN
    /\ _otp_store' =
          IF otp_key \notin DOMAIN _otp_store \/ otp_data.verified
          THEN _otp_store
          ELSE IF clock > otp_data.expires_at \/ otp_data.attempts >= MAX_ATTEMPTS
          THEN Del(_otp_store, {otp_key})
          ELSE Put(_otp_store, otp_key,
                   [otp_data EXCEPT !.attempts = @ + 1,
                                    !.verified = (otp_data.otp = otp)])
    /\ UNCHANGED <<store, procs, keys, _sessions, users>>

\* lines 173-182: cleanup_expired
CleanupExpired ==
    /\ _otp_store' = Del(_otp_store, {k \in DOMAIN _otp_store : clock > _otp_store[k].expires_at})
    /\ UNCHANGED <<store, procs, keys, _sessions, users>>

(* ---- DRIDService.create_deposit_slip ---- *)

\* validity_minutes or DEFAULT_VALIDITY_MINUTES
Validity(requested) ==
    IF requested # 0 THEN requested ELSE DEFAULT_VALIDITY_MINUTES

\* the query with VERIFIED left out of the status list
ExistingActiveNoVerified(cnic, account) ==
    {d \in Drids : /\ slips[d].customer_cnic = cnic
                   /\ slips[d].customer_account = account
                   /\ slips[d].status \in {"INITIATED", "RETRIEVED"}
                   /\ slips[d].expires_at > clock}

\* lines 93-99: the existing-active-slip query
ExistingActive(cnic, account) ==
    {d \in Drids : /\ slips[d].customer_cnic = cnic
                   /\ slips[d].customer_account = account
                   /\ slips[d].status \in ActiveStatuses
                   /\ slips[d].expires_at > clock}

\* lines 79-103: what create answers before it inserts; .first() may give
\* any of the matching rows
CreateOutcomes(cnic, account) ==
    IF cnic \notin Customers
    THEN {Refuse("Customer not found", "", 0)}
    ELSE IF account \notin Accounts
    THEN {Refuse("Account not found", "", 0)}
    ELSE IF Owner[account] # cnic
    THEN {Refuse("Account does not belong to the specified customer", "", 0)}
    ELSE IF ExistingActive(cnic, account) # {}
    THEN {Refuse("EXISTING_SLIP", "", d) : d \in ExistingActive(cnic, account)}
    ELSE {Proceed}

\* the amount every deposit slip is created for
DepositAmount == 50000

NewSlip(cnic, account, kind, validity) ==
    [customer_cnic |-> cnic, customer_account |-> account,
     amount |-> DepositAmount,
     transaction_type |-> kind, status |-> "INITIATED",
     expires_at |-> clock + validity, validity_minutes |-> validity,
     retrieved_by |-> NULL, verified_by |-> NULL, completed_by |-> NULL,
     transaction_id |-> 0, cancelled_by |-> NULL,
     cancellation_reason |-> FALSE, rejection_reason |-> FALSE]

\* number of handlers that passed the query and have not inserted yet
PendingInserts == Cardinality({w \in Workers : procs[w].pc = "create_insert"})

\* lines 77-103: directory checks and the existing-active-slip query
CreateQuery(w, cnic, account, requested, kind) ==
    /\ procs[w].pc = "idle"
    /\ UNCHANGED <<store, keys, others>>
    /\ \E r \in CreateOutcomes(cnic, account) :
        IF r.ok
        THEN Goto(w, [Idle EXCEPT !.pc = "create_insert", !.cust = cnic,
                                  !.acct = account, !.kind = kind,
                                  !.validity_minutes = requested,
                                  !.val = Validity(requested),
                                  !.seen = Len(slips)])
        ELSE Return(w)

\* lines 105-151: build the slip, db.add, db.commit
CreateInsert(w) ==
    /\ procs[w].pc = "create_insert"
    /\ slips' = Append(slips, NewSlip(procs[w].cust, procs[w].acct,
                                      procs[w].kind, procs[w].val))
    /\ Return(w)
    /\ UNCHANGED <<transactions, receipts, clock, keys, others>>

(* ---- DRIDService.validate_drid ---- *)

\* lines 181-183: is_expired and time_remaining
IsExpired(s) == clock > s.expires_at

Max(a, b) == IF a >= b THEN a ELSE b

\* line 183: timedelta.total_seconds() of a difference of two clock readings
\* (the clock counts minutes), truncated by int()
total_seconds(minutes) == minutes * 60

TimeRemainingSigned(s) == total_seconds(s.expires_at - clock)

TimeRemaining(s) == IF ~IsExpired(s) THEN Max(0, total_seconds(s.expires_at - clock)) ELSE 0

\* lines 185-232: the classification validate_drid returns for a stored slip;
\* expire tells that the lazy INITIATED -> EXPIRED write is made first
ValidationResult(s) ==
    IF IsExpired(s) /\ s.status = "INITIATED"
    THEN [is_valid |-> FALSE, is_expired |-> TRUE, is_used |-> FALSE,
          is_cancelled |-> FALSE, status |-> "EXPIRED",
          message |-> "DRID has expired", time_remaining |-> 0,
          expire |-> TRUE]
    ELSE IF s.status \in {"COMPLETED", "PROCESSING"}
    THEN [is_valid |-> FALSE, is_expired |-> FALSE, is_used |-> TRUE,
          is_cancelled |-> FALSE, status |-> s.status,
          message |-> "DRID has already been used",
          time_remaining |-> TimeRemaining(s), expire |-> FALSE]
    ELSE IF s.status \in {"CANCELLED", "REJECTED"}
    THEN [is_valid |-> FALSE, is_expired |-> FALSE, is_used |-> FALSE,
          is_cancelled |-> TRUE, status |-> s.status,
          message |-> IF s.status = "CANCELLED" THEN "DRID has been cancelled"
                      ELSE "DRID has been rejected",
          time_remaining |-> TimeRemaining(s), expire |-> FALSE]
    ELSE [is_valid |-> TRUE, is_expired |-> FALSE, is_used |-> FALSE,
          is_cancelled |-> FALSE, status |-> s.status,
          message |-> "DRID is valid",
          time_remaining |-> TimeRemaining(s), expire |-> FALSE]

\* lines 164-232 up to the lazy expiry write: lookup, tracking commit,
\* classification of the reloaded row
ValidateCheck(w, d) ==
    /\ procs[w].pc = "idle"
    /\ UNCHANGED <<store, keys, others>>
    /\ IF d \in Drids /\ ValidationResult(slips[d]).expire
       THEN Goto(w, [Idle EXCEPT !.pc = "validate_expire", !.drid = d])
       ELSE Return(w)

\* lines 187-197: slip.status = EXPIRED, db.commit()
ValidateExpire(w) ==
    /\ procs[w].pc = "validate_expire"
    /\ SetSlip(procs[w].drid, [slips[procs[w].drid] EXCEPT !.status = "EXPIRED"])
    /\ Return(w)
    /\ UNCHANGED <<transactions, receipts, clock, keys, others>>

(* ---- DRIDService.retrieve_deposit_slip ---- *)

\* lines 247-251: validate_drid first, return its message when not valid
RetrieveValidate(w, d, teller_id) ==
    /\ procs[w].pc = "idle"
    /\ UNCHANGED <<store, keys, others>>
    /\ IF d \notin Drids
       THEN Return(w)
       ELSE IF ValidationResult(slips[d]).expire
       THEN Goto(w, [Idle EXCEPT !.pc = "retrieve_expire", !.drid = d])
       ELSE IF ~ValidationResult(slips[d]).is_valid
       THEN Return(w)
       ELSE Goto(w, [Idle EXCEPT !.pc = "retrieve_read", !.drid = d,
                                 !.by = teller_id])

\* the lazy expiry write of the validate_drid call made by retrieve
RetrieveExpire(w) ==
    /\ procs[w].pc = "retrieve_expire"
    /\ SetSlip(procs[w].drid, [slips[procs[w].drid] EXCEPT !.status = "EXPIRED"])
    /\ Return(w)
    /\ UNCHANGED <<transactions, receipts, clock, keys, others>>

\* lines 253-260: what retrieve answers for the slip it queries again
RetrieveOutcome(s) ==
    IF s.status \notin {"INITIATED", "RETRIEVED", "VERIFIED"}
    THEN Refuse("Cannot retrieve: current status is", s.status, 0)
    ELSE Proceed

\* lines 253-260, and 265-268 when the slip is not INITIATED
RetrieveRead(w) ==
    LET d == procs[w].drid IN
    /\ procs[w].pc = "retrieve_read"
    /\ UNCHANGED <<store, keys, others>>
    /\ IF RetrieveOutcome(slips[d]).ok /\ slips[d].status = "INITIATED"
       THEN Goto(w, [procs[w] EXCEPT !.pc = "retrieve_commit"])
       ELSE Return(w)

\* the retrieval restarting the validity period
RetrieveCommitExtends(w) ==
    LET d == procs[w].drid IN
    /\ procs[w].pc = "retrieve_commit"
    /\ SetSlip(d, [slips[d] EXCEPT
            !.status = "RETRIEVED",
            !.retrieved_by = procs[w].by,
            !.expires_at = clock + slips[d].validity_minutes])
    /\ Return(w)
    /\ UNCHANGED <<transactions, receipts, clock, keys, others>>

\* lines 261-268: mark as retrieved, db.commit()
RetrieveCommit(w) ==
    LET d == procs[w].drid IN
    /\ procs[w].pc = "retrieve_commit"
    /\ SetSlip(d, [slips[d] EXCEPT !.status = "RETRIEVED",
                                   !.retrieved_by = procs[w].by])
    /\ Return(w)
    /\ UNCHANGED <<transactions, receipts, clock, keys, others>>

(* ---- DRIDService.verify_deposit_slip ---- *)

InstrumentInputs == {"None", "True", "False"}

\* lines 310-312: the instrument must be verified for cheque / pay order
InstrumentRequired(kind) == kind \in {"CHEQUE_DEPOSIT", "PAY_ORDER"}

\* lines 287-312: what verify answers before it writes; next is the step it
\* goes to
VerifyOutcome(d, amount_confirmed, depositor_verified, instrument_verified) ==
    IF d \notin Drids
    THEN [Refuse("DRID not found", "", 0) EXCEPT !.drid = 0]
    ELSE IF slips[d].status # "RETRIEVED"
    THEN Refuse("Cannot verify: current status is", slips[d].status, d)
    ELSE IF clock > slips[d].expires_at
    THEN Refuse("DRID has expired", "EXPIRED", d)
    ELSE IF ~amount_confirmed
    THEN Refuse("Amount must be confirmed", "", d)
    ELSE IF ~depositor_verified
    THEN Refuse("Depositor identity must be verified", "", d)
    ELSE IF /\ InstrumentRequired(slips[d].transaction_type)
            /\ instrument_verified # "True"
    THEN Refuse("Instrument must be verified", "", d)
    ELSE Proceed

\* lines 287-312: lookup, status guard, expiry, verification flags
VerifyRead(w, d, teller_id, amount_confirmed, depositor_verified, instrument_verified) ==
    LET r == VerifyOutcome(d, amount_confirmed, depositor_verified,
                           instrument_verified) IN
    /\ procs[w].pc = "idle"
    /\ UNCHANGED <<store, keys, others>>
    /\ IF r.ok
       THEN Goto(w, [Idle EXCEPT !.pc = "verify_commit", !.drid = d,
                                 !.by = teller_id])
       ELSE IF r.message = "DRID has expired"
       THEN Goto(w, [Idle EXCEPT !.pc = "verify_expire", !.drid = d])
       ELSE Return(w)

\* lines 298-300: slip.status = EXPIRED, db.commit()
VerifyExpire(w) ==
    /\ procs[w].pc = "verify_expire"
    /\ SetSlip(procs[w].drid, [slips[procs[w].drid] EXCEPT !.status = "EXPIRED"])
    /\ Return(w)
    /\ UNCHANGED <<transactions, receipts, clock, keys, others>>

\* lines 315-322: mark as verified, db.commit()
VerifyCommit(w) ==
    LET d == procs[w].drid IN
    /\ procs[w].pc = "verify_commit"
    /\ SetSlip(d, [slips[d] EXCEPT !.status = "VERIFIED",
                                   !.verified_by = procs[w].by])
    /\ Return(w)
    /\ UNCHANGED <<transactions, receipts, clock, keys, others>>

(* ---- DRIDService.complete_deposit_slip ---- *)

\* the status guard letting PROCESSING through as well
CompleteOutcomeAdmitsProcessing(d, authorization_captured) ==
    IF d \notin Drids
    THEN Refuse("DRID not found", "", 0)
    ELSE IF slips[d].status \notin {"VERIFIED", "PROCESSING"}
    THEN Refuse("Cannot complete: current status is", slips[d].status, d)
    ELSE IF clock > slips[d].expires_at
    THEN Refuse("DRID has expired", "EXPIRED", d)
    ELSE IF ~authorization_captured
    THEN Refuse("Customer authorization must be captured", "", d)
    ELSE Proceed

\* the authorization guard asking the OTP store as well
CompleteOutcomeRequiresOtp(d, authorization_captured) ==
    IF d \notin Drids
    THEN Refuse("DRID not found", "", 0)
    ELSE IF slips[d].status # "VERIFIED"
    THEN Refuse("Cannot complete: current status is", slips[d].status, d)
    ELSE IF clock > slips[d].expires_at
    THEN Refuse("DRID has expired", "EXPIRED", d)
    ELSE IF \/ ~authorization_captured
            \/ ~\E k \in DOMAIN _otp_store : _otp_store[k].drid = d /\ _otp_store[k].verified
    THEN Refuse("Customer authorization must be captured", "", d)
    ELSE Proceed

\* lines 340-356: what complete answers before it writes
CompleteOutcome(d, authorization_captured) ==
    IF d \notin Drids
    THEN Refuse("DRID not found", "", 0)
    ELSE IF slips[d].status # "VERIFIED"
    THEN Refuse("Cannot complete: current status is", slips[d].status, d)
    ELSE IF clock > slips[d].expires_at
    THEN Refuse("DRID has expired", "EXPIRED", d)
    ELSE IF ~authorization_captured
    THEN Refuse("Customer authorization must be captured", "", d)
    ELSE Proceed

\* lines 340-356: lookup, status guard, expiry, authorization
CompleteRead(w, d, teller_id, authorization_captured) ==
    LET r == CompleteOutcome(d, authorization_captured) IN
    /\ procs[w].pc = "idle"
    /\ UNCHANGED <<store, keys, others>>
    /\ IF r.ok
       THEN Goto(w, [Idle EXCEPT !.pc = "complete_processing", !.drid = d,
                                 !.by = teller_id,
                                 !.authorization_captured = TRUE])
       ELSE IF r.message = "DRID has expired"
       THEN Goto(w, [Idle EXCEPT !.pc = "complete_expire", !.drid = d,
                        !.authorization_captured = authorization_captured])
       ELSE Return(w)

\* lines 351-353: slip.status = EXPIRED, db.commit()
CompleteExpire(w) ==
    /\ procs[w].pc = "complete_expire"
    /\ SetSlip(procs[w].drid, [slips[procs[w].drid] EXCEPT !.status = "EXPIRED"])
    /\ Return(w)
    /\ UNCHANGED <<transactions, receipts, clock, keys, others>>

\* lines 358-360: slip.status = PROCESSING, db.commit()
CompleteProcessing(w) ==
    /\ procs[w].pc = "complete_processing"
    /\ SetSlip(procs[w].drid,
               [slips[procs[w].drid] EXCEPT !.status = "PROCESSING"])
    /\ Goto(w, [procs[w] EXCEPT !.pc = "complete_txn"])
    /\ UNCHANGED <<transactions, receipts, clock, keys, others>>

\* an exception raised inside the try block (lines 362-420) is caught at
\* line 422: the handler goes to its rollback
CompleteRaise(w) ==
    /\ procs[w].pc \in {"complete_txn", "complete_receipt", "complete_final"}
    /\ Goto(w, [procs[w] EXCEPT !.pc = "complete_rollback"])
    /\ UNCHANGED <<store, keys, others>>

\* lines 363-406: build the Transaction from the slip, db.add, db.commit;
\* source_drid tells which slip the row was built from
NewTransaction(w) ==
    LET d == procs[w].drid IN
    [source_drid |-> d,
     customer_account |-> slips[d].customer_account,
     transaction_type |-> slips[d].transaction_type,
     amount |-> slips[d].amount,
     status |-> "COMPLETED", processed_by |-> procs[w].by]

CompleteTxn(w) ==
    /\ procs[w].pc = "complete_txn"
    /\ Len(transactions) < MaxTxns
    /\ transactions' = Append(transactions, NewTransaction(w))
    /\ Goto(w, [procs[w] EXCEPT !.pc = "complete_receipt",
                                !.txn = Len(transactions) + 1])
    /\ UNCHANGED <<slips, receipts, clock, keys, others>>

\* line 409 and ReceiptService.create_receipt: sign, db.add(receipt),
\* db.commit()
CompleteReceipt(w) ==
    /\ procs[w].pc = "complete_receipt"
    /\ receipts' = Append(receipts, [transaction_id |-> procs[w].txn])
    /\ Goto(w, [procs[w] EXCEPT !.pc = "complete_final"])
    /\ UNCHANGED <<slips, transactions, clock, keys, others>>

\* lines 411-420: link the transaction, mark COMPLETED, db.commit(); the
\* caller of the handler goes on at after
CompleteLink(w, after) ==
    LET d == procs[w].drid IN
    /\ procs[w].pc = "complete_final"
    /\ SetSlip(d, [slips[d] EXCEPT !.status = "COMPLETED",
                                   !.completed_by = procs[w].by,
                                   !.transaction_id = procs[w].txn])
    /\ Goto(w, after)
    /\ UNCHANGED <<transactions, receipts, clock, keys, others>>

\* lines 411-420 with the return of line 420
CompleteFinal(w) == CompleteLink(w, Idle)

\* lines 422-426: slip.status = VERIFIED, db.commit(), return the error
CompleteRollback(w) ==
    LET d == procs[w].drid IN
    /\ procs[w].pc = "complete_rollback"
    /\ SetSlip(d, [slips[d] EXCEPT !.status = "VERIFIED"])
    /\ Return(w)
    /\ UNCHANGED <<transactions, receipts, clock, keys, others>>

(* ---- DRIDService.cancel_deposit_slip ---- *)

\* cancelled_by is a user id or "CUSTOMER"
CancelledByInputs == Tellers \cup {"CUSTOMER"}

\* lines 436-443: what cancel answers before it writes
CancelOutcome(d) ==
    IF d \notin Drids
    THEN Refuse("DRID not found", "", 0)
    ELSE IF slips[d].status \in {"COMPLETED", "EXPIRED"}
    THEN Refuse("Cannot cancel: current status is", slips[d].status, d)
    ELSE Proceed

\* lines 436-443: lookup and status guard
CancelRead(w, d, cancelled_by) ==
    /\ procs[w].pc = "idle"
    /\ UNCHANGED <<store, keys, others>>
    /\ IF CancelOutcome(d).ok
       THEN Goto(w, [Idle EXCEPT !.pc = "cancel_commit", !.drid = d,
                                 !.by = cancelled_by])
       ELSE Return(w)

\* lines 445-460: stamp the cancellation, db.commit()
CancelCommit(w) ==
    LET d == procs[w].drid IN
    /\ procs[w].pc = "cancel_commit"
    /\ SetSlip(d, [slips[d] EXCEPT
            !.status = "CANCELLED",
            !.cancelled_by = IF procs[w].by # "CUSTOMER" THEN procs[w].by
                             ELSE NULL,
            !.cancellation_reason = TRUE])
    /\ Return(w)
    /\ UNCHANGED <<transactions, receipts, clock, keys, others>>

(* ---- teller_reject_deposit_slip (api/v1/deposit_slips.py) ---- *)

\* lines 493-505: what reject answers before it writes
RejectOutcome(d) ==
    IF d \notin Drids
    THEN Refuse("DRID not found", "", 0)
    ELSE IF slips[d].status \in {"COMPLETED", "EXPIRED"}
    THEN Refuse("Cannot reject: current status is", slips[d].status, d)
    ELSE Proceed

\* lines 493-505: lookup and status guard
RejectRead(w, d, current_user) ==
    /\ procs[w].pc = "idle"
    /\ UNCHANGED <<store, keys, others>>
    /\ IF RejectOutcome(d).ok
       THEN Goto(w, [Idle EXCEPT !.pc = "reject_commit", !.drid = d,
                                 !.by = current_user])
       ELSE Return(w)

\* lines 507-520: stamp the rejection, db.commit()
RejectCommit(w) ==
    LET d == procs[w].drid IN
    /\ procs[w].pc = "reject_commit"
    /\ SetSlip(d, [slips[d] EXCEPT !.status = "REJECTED",
                                   !.rejection_reason = TRUE,
                                   !.cancelled_by = procs[w].by])
    /\ Return(w)
    /\ UNCHANGED <<transactions, receipts, clock, keys, others>>

(* ---- DRIDService.expire_old_slips ---- *)

\* lines 486-489: the slips the sweep selects
OldSlips == {d \in Drids : /\ slips[d].status = "INITIATED"
                           /\ slips[d].expires_at < clock}

\* lines 486-499 when nothing is selected, else the query only
SweepRead(w) ==
    /\ procs[w].pc = "idle"
    /\ UNCHANGED <<store, keys, others>>
    /\ IF OldSlips = {}
       THEN Return(w)
       ELSE Goto(w, [Idle EXCEPT !.pc = "sweep_commit", !.batch = OldSlips])

\* lines 491-499: mark each selected slip EXPIRED, db.commit()
SweepCommit(w) ==
    /\ procs[w].pc = "sweep_commit"
    /\ slips' = [d \in Drids |->
                    IF d \in procs[w].batch
                    THEN [slips[d] EXCEPT !.status = "EXPIRED"]
                    ELSE slips[d]]
    /\ Return(w)
    /\ UNCHANGED <<transactions, receipts, clock, keys, others>>

(* ---- the specifications ---- *)

\* the steps of the handlers other than create, run by the workers W
Handle(W) ==
    \/ \E w \in W, d \in DridInputs : ValidateCheck(w, d)
    \/ \E w \in W : ValidateExpire(w)
    \/ \E w \in W, d \in DridInputs, t \in Tellers :
            RetrieveValidate(w, d, t)
    \/ \E w \in W : RetrieveExpire(w)
    \/ \E w \in W : RetrieveRead(w)
    \/ \E w \in W : RetrieveCommit(w)
    \/ \E w \in W, d \in DridInputs, t \in Tellers, ac \in BOOLEAN,
          dv \in BOOLEAN, iv \in InstrumentInputs :
            VerifyRead(w, d, t, ac, dv, iv)
    \/ \E w \in W : VerifyExpire(w)
    \/ \E w \in W : VerifyCommit(w)
    \/ \E w \in W, d \in DridInputs, t \in Tellers, auth \in BOOLEAN :
            CompleteRead(w, d, t, auth)
    \/ \E w \in W : CompleteExpire(w)
    \/ \E w \in W : CompleteProcessing(w)
    \/ \E w \in W : CompleteRaise(w)
    \/ \E w \in W : CompleteTxn(w)
    \/ \E w \in W : CompleteReceipt(w)
    \/ \E w \in W : CompleteFinal(w)
    \/ \E w \in W : CompleteRollback(w)
    \/ \E w \in W, d \in DridInputs, by \in CancelledByInputs :
            CancelRead(w, d, by)
    \/ \E w \in W : CancelCommit(w)
    \/ \E w \in W, d \in DridInputs, t \in Tellers : RejectRead(w, d, t)
    \/ \E w \in W : RejectCommit(w)
    \/ \E w \in W : SweepRead(w)
    \/ \E w \in W : SweepCommit(w)

\* Spec: every handler runs concurrently with every other on one slip of
\* account a1
Next ==
    \/ Tick
    \/ /\ Len(slips) + PendingInserts < MaxTokens
       /\ \E w \in Workers, cnic \in {"c1", "c2", "c0"},
             account \in {"a1", "a0"}, requested \in ValidityInputs,
             kind \in TransactionTypes :
                CreateQuery(w, cnic, account, requested, kind)
    \/ \E w \in Workers : CreateInsert(w)
    \/ Handle(Workers)

Spec == Init /\ [][Next]_vars

\* SpecIssue: issuance requests for either account run concurrently with
\* each other and with the handlers of one further worker, on cash slips
\* of the default validity
NextIssue ==
    \/ Tick
    \/ /\ Len(slips) + PendingInserts < MaxIssued
       /\ \E w \in Workers, account \in Accounts :
                CreateQuery(w, Owner[account], account, 0, "CASH_DEPOSIT")
    \/ \E w \in Workers : CreateInsert(w)
    \/ Handle({"w1"})

SpecIssue == Init /\ [][NextIssue]_vars

(* ---- the drid of a new slip (create_deposit_slip, lines 105-149) ---- *)

\* SpecDrid looks inside the insert step of create: the slips it stores
\* carry the drid that generate_drid drew for them

\* lines 34-38: the values generate_drid can return
DridCandidates == {"DRID-1", "DRID-2", "DRID-3"}

\* the drids of the stored slips, whatever their status
StoredDrids == {slips[i].drid : i \in 1..Len(slips)}

\* the drid column of digital_deposit_slips is declared unique: an insert
\* of a drid that is already stored fails at the commit
DridUnique(c) == c \notin StoredDrids

\* the collision loop looking at the active slips only
GenerateDridActiveOnly(w, c) ==
    /\ procs[w].pc = "create_insert"
    /\ c \notin {slips[i].drid : i \in {j \in 1..Len(slips) :
                                        slips[j].status \in ActiveStatuses}}
    /\ Goto(w, [procs[w] EXCEPT !.pc = "create_commit", !.candidate = c])
    /\ UNCHANGED <<store, keys, others>>

\* lines 105-110: generate_drid, again while a stored slip has the drid;
\* the loop is left with a drid that no stored slip has
GenerateDrid(w, c) ==
    /\ procs[w].pc = "create_insert"
    /\ c \notin StoredDrids
    /\ Goto(w, [procs[w] EXCEPT !.pc = "create_commit", !.candidate = c])
    /\ UNCHANGED <<store, keys, others>>

\* lines 112-151: build the slip with the drid, db.add, db.commit; the
\* commit raises when the drid has been stored meanwhile
InsertDrid(w) ==
    /\ procs[w].pc = "create_commit"
    /\ IF DridUnique(procs[w].candidate)
       THEN slips' = Append(slips,
                        [drid |-> procs[w].candidate]
                            @@ NewSlip(procs[w].cust, procs[w].acct,
                                       procs[w].kind, procs[w].val))
       ELSE UNCHANGED slips
    /\ Return(w)
    /\ UNCHANGED <<transactions, receipts, clock, keys, others>>

\* number of create handlers between their query and their commit
PendingDrids ==
    Cardinality({w \in Workers :
                    procs[w].pc \in {"create_insert", "create_commit"}})

\* SpecDrid: issuance requests for either account run concurrently, and
\* slips are cancelled or expire in between
NextDrid ==
    \/ Tick
    \/ /\ Len(slips) + PendingDrids < MaxDridSlips
       /\ \E w \in Workers, account \in Accounts :
                CreateQuery(w, Owner[account], account, 0, "CASH_DEPOSIT")
    \/ \E w \in Workers, c \in DridCandidates : GenerateDrid(w, c)
    \/ \E w \in Workers : InsertDrid(w)
    \/ \E w \in Workers, d \in DridInputs : ValidateCheck(w, d)
    \/ \E w \in Workers : ValidateExpire(w)
    \/ \E w \in Workers, d \in DridInputs : CancelRead(w, d, "CUSTOMER")
    \/ \E w \in Workers : CancelCommit(w)

SpecDrid == Init /\ [][NextDrid]_vars

(* ---- SignatureService: the key pair ---- *)

\* key pairs rsa.generate_private_key can hand out; each one is new
MaxKeys == 2

SetService(w, s) == signature_service' = [signature_service EXCEPT ![w] = s]

\* places from which initialize() is called: application start-up (main.py
\* line 49), sign_receipt and verify_signature while _initialized is false
InitializePoints == {"idle", "sign", "complete_receipt", "create_receipt", "verify", "verify_signature"}

\* initialize() has returned False to the call that w is running
InitializeFailed(w) == "initialize" \in DOMAIN procs[w]

\* lines 46-55: _initialized is false; look at the two files and choose
\* between _load_keys and _generate_keys
InitializeCheck(w) ==
    /\ procs[w].pc \in InitializePoints
    /\ ~signature_service[w]._initialized
    /\ ~InitializeFailed(w)
    /\ Goto(w, [pc |-> IF key_files.private # 0 /\ key_files.public # 0
                       THEN "load_private" ELSE "generate_keys",
                caller |-> procs[w]])
    /\ UNCHANGED <<store, keys, others>>

\* initialize() returns ok to its caller
InitializeReturn(w, ok) ==
    LET caller == procs[w].caller IN
    Goto(w, IF caller.pc = "idle" THEN Idle
            ELSE IF ok THEN caller
            ELSE [initialize |-> FALSE] @@ caller)

\* lines 111-117: read the private key file into _private_key
LoadPrivate(w) ==
    /\ procs[w].pc = "load_private"
    /\ SetService(w, [signature_service[w] EXCEPT
                            !._private_key = key_files.private])
    /\ Goto(w, [procs[w] EXCEPT !.pc = "load_public"])
    /\ UNCHANGED <<store, key_files, others>>

\* lines 119-124 and 61-62: read the public key file into _public_key,
\* set _initialized and return True
LoadPublic(w) ==
    /\ procs[w].pc = "load_public"
    /\ SetService(w, [signature_service[w] EXCEPT
                            !._public_key = key_files.public,
                            !._initialized = TRUE])
    /\ InitializeReturn(w, TRUE)
    /\ UNCHANGED <<store, key_files, others>>

\* lines 72-95: generate a key pair and write the private key file
GeneratePrivate(w) ==
    LET key == key_files.generated + 1 IN
    /\ procs[w].pc = "generate_keys"
    /\ key_files' = [key_files EXCEPT !.private = key, !.generated = key]
    /\ Goto(w, [procs[w] EXCEPT !.pc = "generate_public"] @@ [key |-> key])
    /\ UNCHANGED <<store, signature_service, others>>

\* lines 96-103 and 61-62: write the public key file, keep the pair in the
\* class attributes, set _initialized and return True
GeneratePublic(w) ==
    LET key == procs[w].key IN
    /\ procs[w].pc = "generate_public"
    /\ key_files' = [key_files EXCEPT !.public = key]
    /\ SetService(w, [_initialized |-> TRUE, _private_key |-> key,
                      _public_key |-> key])
    /\ InitializeReturn(w, TRUE)
    /\ UNCHANGED <<store, others>>

\* lines 65-67: reading, decrypting or writing a key file raises; the
\* exception is caught, _initialized stays false and initialize returns False
InitializeRaise(w) ==
    /\ procs[w].pc \in {"load_private", "load_public", "generate_keys", "generate_public"}
    /\ InitializeReturn(w, FALSE)
    /\ UNCHANGED <<store, keys, others>>

(* ---- SignatureService: signing and verifying ---- *)

\* the keys of receipt_data that _create_signing_payload reads
CanonicalFields == {"receipt_number", "reference_number", "amount", "currency", "customer_name", "customer_account", "transaction_type", "transaction_date", "branch_id", "processed_by"}

\* lines 152-165 with every field but the amount
CreateSigningPayloadNoAmount(receipt_data) ==
    "receipt_number:" \o receipt_data.receipt_number
        \o "|transaction_reference:" \o receipt_data.reference_number
        \o "|currency:" \o receipt_data.currency
        \o "|customer_name:" \o receipt_data.customer_name
        \o "|customer_account:" \o receipt_data.customer_account
        \o "|transaction_type:" \o receipt_data.transaction_type
        \o "|transaction_date:" \o receipt_data.transaction_date
        \o "|branch_id:" \o receipt_data.branch_id
        \o "|teller_id:" \o receipt_data.processed_by

\* lines 152-165: the ten parts "name:value" joined by "|"; the key
\* signing_timestamp of receipt_data is not among them
CreateSigningPayload(receipt_data) ==
    "receipt_number:" \o receipt_data.receipt_number
        \o "|transaction_reference:" \o receipt_data.reference_number
        \o "|amount:" \o receipt_data.amount
        \o "|currency:" \o receipt_data.currency
        \o "|customer_name:" \o receipt_data.customer_name
        \o "|customer_account:" \o receipt_data.customer_account
        \o "|transaction_type:" \o receipt_data.transaction_type
        \o "|transaction_date:" \o receipt_data.transaction_date
        \o "|branch_id:" \o receipt_data.branch_id
        \o "|teller_id:" \o receipt_data.processed_by

\* datetime.isoformat() + "Z" of a time given in minutes, and the way back
\* (datetime.fromisoformat after replace('Z', '+00:00'))
IsoZ(t) == ToString(t) \o "Z"
FromIsoZ(s) == CHOOSE t \in 0..(MaxTicks * TickMinutes) : IsoZ(t) = s

\* RSA PKCS1v15 over SHA-256: a signature is fixed by the private key and the
\* signed bytes, and a public key accepts it for exactly the bytes signed
\* with the private key of its pair
RsaSign(private_key, payload) == [key |-> private_key, signed |-> payload]
RsaVerify(public_key, signature, payload) ==
    signature.key = public_key /\ signature.signed = payload

b64encode(bytes) == <<"base64", bytes>>
b64decode(text) == text[2]
Sha256Hex(payload) == <<"sha256", payload>>

\* line 182-183, 217: what sign_receipt returns when it cannot sign
Unavailable == [signature |-> None, signature_hash |-> None, signature_timestamp |-> None]

\* lines 185-213: sign_receipt with the service initialized
SignReceipt(w, receipt_data) ==
    LET timestamp_iso == IsoZ(clock)
        data == [signing_timestamp |-> timestamp_iso] @@ receipt_data
        payload == CreateSigningPayload(data)
    IN [signature |-> b64encode(RsaSign(signature_service[w]._private_key, payload)),
        signature_hash |-> Sha256Hex(payload),
        signature_timestamp |-> <<timestamp_iso>>]

Authentic == "Signature verified successfully - Receipt is authentic"
Tampered == "INVALID SIGNATURE - Receipt may have been tampered with"
ServiceUnavailable == "Signature service not available"

\* lines 241-265: verify_signature with the service initialized
VerifySignature(w, receipt_data, signature_b64, signing_timestamp) ==
    LET data == [signing_timestamp |-> signing_timestamp] @@ receipt_data
        payload == CreateSigningPayload(data)
    IN IF RsaVerify(signature_service[w]._public_key, b64decode(signature_b64), payload)
       THEN [is_valid |-> TRUE, message |-> Authentic]
       ELSE [is_valid |-> FALSE, message |-> Tampered]

(* ---- calls of sign_receipt and verify_signature ---- *)

\* a receipt_data as create_receipt builds it, and a second value for each
\* of its fields (one of them holds the delimiter)
BaseData == [receipt_number |-> "RCP-1", reference_number |-> "TXN-1", amount |-> "50000.00", currency |-> "PKR", customer_name |-> "ALI", customer_account |-> "a1", transaction_type |-> "CASH_DEPOSIT", transaction_date |-> "0", branch_id |-> "b1", processed_by |-> "t1"]
OtherData == [receipt_number |-> "RCP-2", reference_number |-> "TXN-2", amount |-> "5000.00", currency |-> "USD", customer_name |-> "ALI|customer_account:a2", customer_account |-> "a2", transaction_type |-> "CHEQUE_DEPOSIT", transaction_date |-> "60", branch_id |-> "b2", processed_by |-> "t2"]

\* the field tuples that are signed
SignInputs == {[BaseData EXCEPT !.amount = a, !.customer_name = n, !.customer_account = c] : a \in {BaseData.amount, OtherData.amount}, n \in {BaseData.customer_name, OtherData.customer_name}, c \in {BaseData.customer_account, OtherData.customer_account}}

\* the signing timestamps a verifier may pass
TimestampInputs == {IsoZ(0), IsoZ(TickMinutes)}

\* receipt_data with the value of one field replaced by the other value
Changed(receipt_data, field) ==
    IF field = "none" THEN receipt_data
    ELSE [receipt_data EXCEPT ![field] =
                IF @ = BaseData[field] THEN OtherData[field] ELSE BaseData[field]]

\* line 167: sign_receipt(receipt_data) is called
SignCall(w, receipt_data) ==
    /\ procs[w].pc = "idle"
    /\ Goto(w, [pc |-> "sign", receipt_data |-> receipt_data])
    /\ UNCHANGED <<store, keys, others>>

\* lines 181-217: (None, None, None) when initialize() returned False or
\* signing raises, the signature otherwise
SignReturn(w, raises) ==
    /\ procs[w].pc = "sign"
    /\ signature_service[w]._initialized \/ InitializeFailed(w)
    /\ Goto(w, [pc |-> "signed", receipt_data |-> procs[w].receipt_data,
                result |-> IF signature_service[w]._initialized /\ ~raises
                           THEN SignReceipt(w, procs[w].receipt_data)
                           ELSE Unavailable])
    /\ UNCHANGED <<store, keys, others>>

\* line 219: verify_signature is called with the signature just made, the
\* signed fields with at most one of them changed, and a signing timestamp
VerifyCall(w, field, signing_timestamp) ==
    /\ procs[w].pc = "signed"
    /\ procs[w].result.signature # None
    /\ Goto(w, [pc |-> "verify", signed |-> procs[w].receipt_data,
                receipt_data |-> Changed(procs[w].receipt_data, field),
                signature |-> procs[w].result.signature,
                signature_timestamp |-> procs[w].result.signature_timestamp[1],
                signing_timestamp |-> signing_timestamp])
    /\ UNCHANGED <<store, keys, others>>

\* lines 236-265: what verify_signature returns
VerifyReturn(w) ==
    /\ procs[w].pc = "verify"
    /\ signature_service[w]._initialized \/ InitializeFailed(w)
    /\ Goto(w, [procs[w] EXCEPT !.pc = "verified"] @@
               [result |-> IF signature_service[w]._initialized
                           THEN VerifySignature(w, procs[w].receipt_data, procs[w].signature, procs[w].signing_timestamp)
                           ELSE [is_valid |-> FALSE, message |-> ServiceUnavailable]])
    /\ UNCHANGED <<store, keys, others>>

\* the caller has its answer
CallDone(w) ==
    /\ procs[w].pc \in {"signed", "verified", "receipt_verified", "responded"}
    /\ Return(w)
    /\ UNCHANGED <<store, keys, others>>

\* SpecSign: two processes initialize the service; one of them signs field
\* tuples and verifies what it signed
Initialize(w) ==
    \/ InitializeCheck(w)
    \/ LoadPrivate(w)
    \/ LoadPublic(w)
    \/ key_files.generated < MaxKeys /\ GeneratePrivate(w)
    \/ GeneratePublic(w)
    \/ InitializeRaise(w)

NextSign ==
    \/ \E w \in Workers : Initialize(w)
    \/ \E receipt_data \in SignInputs : SignCall("w1", receipt_data)
    \/ \E raises \in BOOLEAN : SignReturn("w1", raises)
    \/ \E field \in CanonicalFields \cup {"none"}, signing_timestamp \in TimestampInputs : VerifyCall("w1", field, signing_timestamp)
    \/ VerifyReturn("w1")
    \/ CallDone("w1")

SpecSign == Init /\ [][NextSign]_vars

(* ---- ReceiptService and the completion endpoint, with signatures ---- *)

\* receipts a run may store
MaxReceipts == 2

\* drid_service.py lines 376-401: the columns of the Transaction that the
\* signing payload reads and NewTransaction leaves out
TransactionColumns == [reference_number |-> "TXN-" \o ToString(Len(transactions) + 1), currency |-> "PKR", customer_name |-> "ALI", created_at |-> clock, branch_id |-> "b1"]

\* lines 363-406 with those columns: the handler keeps the refreshed row
CompleteTransaction(w) ==
    LET row == TransactionColumns @@ NewTransaction(w) IN
    /\ procs[w].pc = "complete_txn"
    /\ transactions' = Append(transactions, row)
    /\ Goto(w, [procs[w] EXCEPT !.pc = "complete_receipt",
                                !.txn = Len(transactions) + 1]
               @@ [transaction |-> row])
    /\ UNCHANGED <<slips, receipts, clock, keys, others>>

\* receipt_service.py lines 58-69 (and 274-285): the fields as strings;
\* str() of a Numeric(15, 2) amount has two decimals
ReceiptData(receipt_number, transaction) ==
    [receipt_number |-> receipt_number,
     reference_number |-> transaction.reference_number,
     amount |-> ToString(transaction.amount) \o ".00",
     currency |-> transaction.currency,
     customer_name |-> transaction.customer_name,
     customer_account |-> transaction.customer_account,
     transaction_type |-> transaction.transaction_type,
     transaction_date |-> ToString(transaction.created_at),
     branch_id |-> transaction.branch_id,
     processed_by |-> transaction.processed_by]

\* lines 39-97: the Receipt row for the transaction with id, signed when
\* the service of the process is initialized and signing does not raise
NewReceipt(w, id, transaction, raises) ==
    LET receipt_number == "RCP-" \o ToString(Len(receipts) + 1)
        result == IF signature_service[w]._initialized /\ ~raises
                  THEN SignReceipt(w, ReceiptData(receipt_number, transaction))
                  ELSE Unavailable
    IN [transaction_id |-> id, receipt_number |-> receipt_number,
        digital_signature |-> result.signature,
        signature_hash |-> result.signature_hash,
        signature_timestamp |->
            IF result.signature_timestamp = None THEN None
            ELSE <<FromIsoZ(result.signature_timestamp[1])>>,
        is_signature_valid |-> result.signature # None]

\* sign_receipt can go on: the service is initialized or initialize() has
\* returned False to this call
SignReady(w) == signature_service[w]._initialized \/ InitializeFailed(w)

\* create_receipt with signing that raises through to its caller
CompleteSignedReceiptRaises(w, raises) ==
    /\ procs[w].pc = "complete_receipt"
    /\ SignReady(w)
    /\ IF signature_service[w]._initialized /\ ~raises
       THEN /\ receipts' = Append(receipts, NewReceipt(w, procs[w].txn, procs[w].transaction, raises))
            /\ Goto(w, [procs[w] EXCEPT !.pc = "complete_final"])
       ELSE /\ UNCHANGED receipts
            /\ Goto(w, [procs[w] EXCEPT !.pc = "complete_rollback"])
    /\ UNCHANGED <<slips, transactions, clock, keys, others>>

\* drid_service.py line 409 and create_receipt lines 32-108: sign,
\* db.add(receipt), db.commit()
CompleteSignedReceipt(w, raises) ==
    /\ procs[w].pc = "complete_receipt"
    /\ SignReady(w)
    /\ receipts' = Append(receipts, NewReceipt(w, procs[w].txn, procs[w].transaction, raises))
    /\ Goto(w, [procs[w] EXCEPT !.pc = "complete_final"])
    /\ UNCHANGED <<slips, transactions, clock, keys, others>>

\* deposit_slips.py lines 399-420: complete_deposit_slip has returned the
\* slip and the transaction to the endpoint, which goes on to notify
TellerCompleteFinal(w) ==
    CompleteLink(w, [pc |-> "notify", drid |-> procs[w].drid, txn |-> procs[w].txn])

\* the endpoint with a notification failure that undoes the completion
SendNotificationsUndo(w, failed) ==
    /\ procs[w].pc = "notify"
    /\ IF failed
       THEN SetSlip(procs[w].drid, [slips[procs[w].drid] EXCEPT !.status = "VERIFIED"])
       ELSE UNCHANGED slips
    /\ Goto(w, [pc |-> "responded", drid |-> procs[w].drid, notified |-> ~failed, success |-> ~failed])
    /\ UNCHANGED <<transactions, receipts, clock, keys, others>>

\* deposit_slips.py lines 422-478: the notifications are sent, an exception
\* of either is logged, and the response says success
SendNotifications(w, failed) ==
    /\ procs[w].pc = "notify"
    /\ Goto(w, [pc |-> "responded", drid |-> procs[w].drid, notified |-> ~failed, success |-> TRUE])
    /\ UNCHANGED <<store, keys, others>>

\* lines 117-130: get_or_create_receipt reads the transaction and looks for
\* a receipt of it; with none it goes on to create_receipt
GetOrCreateRead(w, id) ==
    /\ procs[w].pc = "idle"
    /\ id \in 1..Len(transactions)
    /\ \A r \in 1..Len(receipts) : receipts[r].transaction_id # id
    /\ Goto(w, [pc |-> "create_receipt", txn |-> id, transaction |-> transactions[id]])
    /\ UNCHANGED <<store, keys, others>>

\* lines 133-134 and create_receipt: sign, db.add(receipt), db.commit()
CreateReceipt(w, raises) ==
    /\ procs[w].pc = "create_receipt"
    /\ SignReady(w)
    /\ receipts' = Append(receipts, NewReceipt(w, procs[w].txn, procs[w].transaction, raises))
    /\ Return(w)
    /\ UNCHANGED <<slips, transactions, clock, keys, others>>

NotSigned == "Receipt was not digitally signed"

\* lines 254-291: verify_receipt_signature reads the receipt and its
\* transaction; an unsigned receipt is answered at once
VerifyReceiptRead(w, r) ==
    /\ procs[w].pc = "idle"
    /\ r \in 1..Len(receipts)
    /\ IF receipts[r].digital_signature = None
       THEN Goto(w, [pc |-> "receipt_verified", receipt |-> r,
                     result |-> [is_valid |-> FALSE, message |-> NotSigned]])
       ELSE Goto(w, [pc |-> "verify_signature", receipt |-> r,
                     row |-> receipts[r],
                     transaction |-> transactions[receipts[r].transaction_id]])
    /\ UNCHANGED <<store, keys, others>>

\* lines 294-305: verify the signature over the fields read, store the
\* result in is_signature_valid when it differs from the flag read, and
\* return it
VerifyReceiptCommit(w) ==
    LET r == procs[w].receipt
        row == procs[w].row
        result == IF signature_service[w]._initialized
                  THEN VerifySignature(w, ReceiptData(row.receipt_number, procs[w].transaction), row.digital_signature, IsoZ(row.signature_timestamp[1]))
                  ELSE [is_valid |-> FALSE, message |-> ServiceUnavailable]
    IN
    /\ procs[w].pc = "verify_signature"
    /\ SignReady(w)
    /\ IF row.is_signature_valid # result.is_valid
       THEN receipts' = [receipts EXCEPT ![r].is_signature_valid = result.is_valid]
       ELSE UNCHANGED receipts
    /\ Goto(w, [pc |-> "receipt_verified", receipt |-> r,
                transaction |-> procs[w].transaction, result |-> result])
    /\ UNCHANGED <<slips, transactions, clock, keys, others>>

\* a stored transaction is altered behind the application
AmountInputs == {DepositAmount, DepositAmount + 1}
Tamper(id, amount) ==
    /\ id \in 1..Len(transactions)
    /\ amount # transactions[id].amount
    /\ transactions' = [transactions EXCEPT ![id].amount = amount]
    /\ UNCHANGED <<slips, receipts, clock, procs, keys, others>>

\* SpecReceipt: one teller process takes a cash deposit slip from issuance
\* to completion and notification; it and a second process initialize the
\* signature service, fetch and verify receipts, and a stored amount may be
\* altered
NextReceipt ==
    \/ \E w \in Workers : Initialize(w)
    \/ /\ Len(slips) + PendingInserts < MaxTokens
       /\ CreateQuery("w1", Owner["a1"], "a1", DEFAULT_VALIDITY_MINUTES, "CASH_DEPOSIT")
    \/ CreateInsert("w1")
    \/ \E d \in Drids, t \in Tellers : RetrieveValidate("w1", d, t)
    \/ RetrieveRead("w1")
    \/ RetrieveCommit("w1")
    \/ \E d \in Drids, t \in Tellers : VerifyRead("w1", d, t, TRUE, TRUE, "None")
    \/ VerifyCommit("w1")
    \/ \E d \in Drids, t \in Tellers : CompleteRead("w1", d, t, TRUE)
    \/ CompleteProcessing("w1")
    \/ Len(transactions) < MaxTxns /\ CompleteTransaction("w1")
    \/ Len(receipts) < MaxReceipts /\ \E raises \in BOOLEAN : CompleteSignedReceipt("w1", raises)
    \/ TellerCompleteFinal("w1")
    \/ \E failed \in BOOLEAN : SendNotifications("w1", failed)
    \/ \E w \in Workers, id \in 1..MaxTxns : GetOrCreateRead(w, id)
    \/ Len(receipts) < MaxReceipts /\ \E w \in Workers, raises \in BOOLEAN : CreateReceipt(w, raises)
    \/ \E w \in Workers, r \in 1..MaxReceipts : VerifyReceiptRead(w, r)
    \/ \E w \in Workers : VerifyReceiptCommit(w)
    \/ \E w \in Workers : CallDone(w)
    \/ \E id \in 1..MaxTxns, amount \in AmountInputs : Tamper(id, amount)

SpecReceipt == Init /\ [][NextReceipt]_vars

(* ---- persistence failures ---- *)

\* where a handler of DRIDService is when it runs a query or a commit
\* outside a try block: before its first query, and at each of its commits
\* but the three inside the try block of complete_deposit_slip
StorePoints == {"idle", "create_insert", "validate_expire", "retrieve_expire", "retrieve_read", "retrieve_commit", "verify_expire", "verify_commit", "complete_expire", "complete_processing", "complete_rollback", "cancel_commit"}

\* db.query(...) or db.commit() raises (the database is unreachable); no
\* handler of DRIDService catches it there, so the handler is left with the
\* exception
PersistenceFailure(w) ==
    /\ procs[w].pc \in StorePoints
    /\ Goto(w, [pc |-> "raised", at |-> procs[w].pc])
    /\ UNCHANGED <<store, keys, others>>

\* the exception leaves the handler and get_db closes the session
Propagate(w) ==
    /\ procs[w].pc = "raised"
    /\ Return(w)
    /\ UNCHANGED <<store, keys, others>>

\* SpecFail: one process runs the handlers on one slip, and any of its
\* queries and commits may fail
NextFail ==
    \/ Tick
    \/ /\ Len(slips) + PendingInserts < MaxTokens
       /\ \E requested \in ValidityInputs, kind \in TransactionTypes :
                CreateQuery("w1", Owner["a1"], "a1", requested, kind)
    \/ CreateInsert("w1")
    \/ Handle({"w1"})
    \/ PersistenceFailure("w1")
    \/ Propagate("w1")

SpecFail == Init /\ [][NextFail]_vars

\* SpecScenario: one process, whose key files can be written and read,
\* issues a cash deposit slip and takes it through retrieve, verify and
\* complete before it expires, then verifies the receipt while the stored
\* amount may be altered
NextScenario ==
    \/ InitializeCheck("w1")
    \/ key_files.generated < MaxKeys /\ GeneratePrivate("w1")
    \/ GeneratePublic("w1")
    \/ clock + TickMinutes <= DEFAULT_VALIDITY_MINUTES /\ Tick
    \/ /\ Len(slips) + PendingInserts < MaxTokens
       /\ CreateQuery("w1", Owner["a1"], "a1", DEFAULT_VALIDITY_MINUTES, "CASH_DEPOSIT")
    \/ CreateInsert("w1")
    \/ \E d \in Drids, t \in Tellers : RetrieveValidate("w1", d, t)
    \/ RetrieveRead("w1")
    \/ RetrieveCommit("w1")
    \/ \E d \in Drids, t \in Tellers : VerifyRead("w1", d, t, TRUE, TRUE, "None")
    \/ VerifyCommit("w1")
    \/ \E d \in Drids, t \in Tellers : CompleteRead("w1", d, t, TRUE)
    \/ CompleteProcessing("w1")
    \/ Len(transactions) < MaxTxns /\ CompleteTransaction("w1")
    \/ Len(receipts) < MaxReceipts /\ CompleteSignedReceipt("w1", FALSE)
    \/ TellerCompleteFinal("w1")
    \/ \E failed \in BOOLEAN : SendNotifications("w1", failed)
    \/ \E r \in 1..MaxReceipts : VerifyReceiptRead("w1", r)
    \/ VerifyReceiptCommit("w1")
    \/ CallDone("w1")
    \/ \E id \in 1..MaxTxns, amount \in AmountInputs : Tamper(id, amount)

SpecScenario == Init /\ [][NextScenario]_vars


(* ---- expiry only: validate calls and the sweep ---- *)

\* SpecExpiry: after issuance the only operations are validate calls and
\* expire_old_slips runs of both workers
NextExpiry ==
    \/ Tick
    \/ /\ Len(slips) + PendingInserts < MaxTokens
       /\ \E w \in Workers, account \in Accounts, requested \in ValidityInputs,
             kind \in TransactionTypes :
                CreateQuery(w, Owner[account], account, requested, kind)
    \/ \E w \in Workers : CreateInsert(w)
    \/ \E w \in Workers, d \in DridInputs : ValidateCheck(w, d)
    \/ \E w \in Workers : ValidateExpire(w)
    \/ \E w \in Workers : SweepRead(w)
    \/ \E w \in Workers : SweepCommit(w)

SpecExpiry == Init /\ [][NextExpiry]_vars


(* ---- progress: the clock and the periodic sweep keep running ---- *)

\* the sweep job, run by worker w2
Sweep == SweepRead("w2") \/ SweepCommit("w2")

\* SpecLive: worker w1 issues, validates, retrieves and verifies; the clock
\* advances, the sweep runs whenever it can and a started call is finished
\* (weak fairness)
NextLive ==
    \/ Tick
    \/ /\ Len(slips) + PendingInserts < MaxTokens
       /\ \E account \in Accounts, requested \in ValidityInputs,
             kind \in TransactionTypes :
                CreateQuery("w1", Owner[account], account, requested, kind)
    \/ CreateInsert("w1")
    \/ \E d \in DridInputs : ValidateCheck("w1", d)
    \/ ValidateExpire("w1")
    \/ \E d \in DridInputs, t \in Tellers : RetrieveValidate("w1", d, t)
    \/ RetrieveExpire("w1")
    \/ RetrieveRead("w1")
    \/ RetrieveCommit("w1")
    \/ \E d \in DridInputs, t \in Tellers, ac \in BOOLEAN, dv \in BOOLEAN,
          iv \in InstrumentInputs : VerifyRead("w1", d, t, ac, dv, iv)
    \/ VerifyExpire("w1")
    \/ VerifyCommit("w1")
    \/ Sweep

\* a call of w1 that has started runs to its return
Finish ==
    \/ CreateInsert("w1")
    \/ ValidateExpire("w1")
    \/ RetrieveExpire("w1")
    \/ RetrieveRead("w1")
    \/ RetrieveCommit("w1")
    \/ VerifyExpire("w1")
    \/ VerifyCommit("w1")

LiveFairness == WF_vars(Tick) /\ WF_vars(Sweep) /\ WF_vars(Finish)

SpecLive == Init /\ [][NextLive]_vars /\ LiveFairness


(* ---- process failure inside complete_deposit_slip ---- *)

\* the process running complete dies after the PROCESSING commit (line 360)
\* and before its last commit (line 417, or 425 in the except branch): its
\* uncommitted work is lost, what it committed stays, and the worker is
\* started again
Crash(w) ==
    /\ procs[w].pc \in {"complete_txn", "complete_receipt", "complete_final",
                        "complete_rollback"}
    /\ Goto(w, Idle)
    /\ UNCHANGED <<store, keys, others>>

\* the steps that take a started call of worker w further
Started(w) ==
    \/ CreateInsert(w)
    \/ ValidateExpire(w)
    \/ RetrieveExpire(w)
    \/ RetrieveRead(w)
    \/ RetrieveCommit(w)
    \/ VerifyExpire(w)
    \/ VerifyCommit(w)
    \/ CompleteExpire(w)
    \/ CompleteProcessing(w)
    \/ CompleteRaise(w)
    \/ CompleteTxn(w)
    \/ CompleteReceipt(w)
    \/ CompleteFinal(w)
    \/ CompleteRollback(w)
    \/ CancelCommit(w)
    \/ RejectCommit(w)
    \/ SweepCommit(w)

\* SpecCrash: one worker runs every operation of the engine, one call after
\* the other, and can die inside complete; a started call that is not killed
\* runs on, the clock advances and the sweep is run
NextCrash ==
    \/ Tick
    \/ /\ Len(slips) + PendingInserts < MaxTokens
       /\ \E account \in Accounts, requested \in ValidityInputs,
             kind \in TransactionTypes :
                CreateQuery("w1", Owner[account], account, requested, kind)
    \/ CreateInsert("w1")
    \/ Handle({"w1"})
    \/ Crash("w1")

CrashFairness ==
    /\ WF_vars(Tick)
    /\ WF_vars(Started("w1"))
    /\ WF_vars(SweepRead("w1"))

SpecCrash == Init /\ [][NextCrash]_vars /\ CrashFairness


(* ---- OTP authorization next to the teller flow ---- *)

\* SpecOtp: one worker takes a cash deposit slip of account a1 through
\* retrieve, verify and complete, while OTPs for the slip are sent, verified
\* and cleaned up
NextOtp ==
    \/ Tick
    \/ /\ Len(slips) + PendingInserts < MaxTokens
       /\ CreateQuery("w1", Owner["a1"], "a1", 0, "CASH_DEPOSIT")
    \/ CreateInsert("w1")
    \/ \E d \in Drids, t \in Tellers : RetrieveValidate("w1", d, t)
    \/ RetrieveExpire("w1")
    \/ RetrieveRead("w1")
    \/ RetrieveCommit("w1")
    \/ \E d \in Drids, t \in Tellers : VerifyRead("w1", d, t, TRUE, TRUE, "None")
    \/ VerifyExpire("w1")
    \/ VerifyCommit("w1")
    \/ \E d \in Drids, t \in Tellers, auth \in BOOLEAN : CompleteRead("w1", d, t, auth)
    \/ CompleteExpire("w1")
    \/ CompleteProcessing("w1")
    \/ CompleteRaise("w1")
    \/ CompleteTxn("w1")
    \/ CompleteReceipt("w1")
    \/ CompleteFinal("w1")
    \/ CompleteRollback("w1")
    \/ \E phone \in PhoneInputs, d \in Drids, otp \in OtpCodes : SendOtp(phone, d, otp)
    \/ \E phone \in PhoneInputs, d \in Drids, otp \in OtpCodes : VerifyOtp(phone, d, otp)
    \/ CleanupExpired

SpecOtp == Init /\ [][NextOtp]_vars


(* ---- the signing payload of field tuples that hold the delimiter ---- *)

\* field tuples whose customer_name or customer_account holds "|" and the
\* label of the next field
PayloadInputs == {[BaseData EXCEPT !.customer_name = n, !.customer_account = c] : n \in {"ALI", "ALI|customer_account:a2"}, c \in {"a1", "a2", "a2|customer_account:a1"}}

\* line 219: verify_signature is called with the signature just made, its
\* signing timestamp and the fields of any receipt
VerifyOtherCall(w, receipt_data) ==
    /\ procs[w].pc = "signed"
    /\ procs[w].result.signature # None
    /\ Goto(w, [pc |-> "verify", signed |-> procs[w].receipt_data,
                receipt_data |-> receipt_data,
                signature |-> procs[w].result.signature,
                signature_timestamp |-> procs[w].result.signature_timestamp[1],
                signing_timestamp |-> procs[w].result.signature_timestamp[1]])
    /\ UNCHANGED <<store, keys, others>>

\* SpecPayload: two processes initialize the service; one of them signs a
\* field tuple and verifies the signature against a field tuple
NextPayload ==
    \/ \E w \in Workers : Initialize(w)
    \/ \E receipt_data \in PayloadInputs : SignCall("w1", receipt_data)
    \/ \E raises \in BOOLEAN : SignReturn("w1", raises)
    \/ \E receipt_data \in PayloadInputs : VerifyOtherCall("w1", receipt_data)
    \/ VerifyReturn("w1")
    \/ CallDone("w1")

SpecPayload == Init /\ [][NextPayload]_vars


(* ---- WhatsApp sessions (whatsapp/whatsapp_adapter.py) ---- *)

\* the senders as Twilio names them, and the texts they send
ChatPhones == {"whatsapp:+923001234567", "+923001234567", "whatsapp:+923331234567"}
MessageInputs == {" Hi ", "1", "3", "9"}

\* lines 147-157: drop the whatsapp: prefix, blanks and the leading +
SessionPhone(phone) ==
    CASE phone = "whatsapp:+923001234567" -> "923001234567"
      [] phone = "+923001234567" -> "923001234567"
      [] phone = "whatsapp:+923331234567" -> "923331234567"

\* line 317: message_text.strip().lower()
Clean(message_text) == IF message_text = " Hi " THEN "hi" ELSE message_text

\* lines 337-343: a greeting is any text that holds one of the words; of the
\* texts sent, only "hi" does
Greetings == {"hi", "hello", "hey", "start", "menu", "home", "assalam", "salam", "aoa", "main menu", "back"}
_is_greeting(message) == \E g \in Greetings : message = g

\* lines 92-94
is_expired(session) == clock > session.updated_at + TIMEOUT_MINUTES

\* lines 96-98
touch(session) == [session EXCEPT !.updated_at = clock]

\* lines 100-104
reset(session) == touch([session EXCEPT !.state = "MAIN_MENU", !.data = NoEntries])

\* lines 80-87: a new session
UserSession(phone) == [phone_number |-> phone, state |-> "MAIN_MENU", data |-> NoEntries, created_at |-> clock, updated_at |-> clock]

\* lines 113-129: the session get_session returns (and stores)
get_session(phone_number) ==
    LET phone == SessionPhone(phone_number) IN
    IF phone \in DOMAIN _sessions
    THEN touch(IF is_expired(_sessions[phone]) THEN reset(_sessions[phone])
               ELSE _sessions[phone])
    ELSE UserSession(phone)

\* a handler's answer: the session as it leaves it and the text it returns
Answer(session, handler, response) == [session |-> session, handler |-> <<handler>>, response |-> response]

\* lines 403-425
_handle_main_menu(session, message) ==
    IF message = "1"
    THEN Answer(session, "_handle_main_menu", "ACCOUNT_SERVICES_PLACEHOLDER")
    ELSE IF message = "2"
    THEN Answer(session, "_handle_main_menu", "CARD_SERVICES_PLACEHOLDER")
    ELSE IF message = "3"
    THEN Answer([session EXCEPT !.state = "BRANCH_SERVICES"], "_handle_main_menu", "BRANCH_SERVICES_MENU")
    ELSE IF message = "4"
    THEN Answer(session, "_handle_main_menu", "COMPLAINTS_PLACEHOLDER")
    ELSE Answer(session, "_handle_main_menu", "INVALID_OPTION" \o "\n" \o "GREETING")

\* lines 427-446
_handle_branch_services(session, message) ==
    IF message = "1"
    THEN Answer([session EXCEPT !.state = "DEPOSIT_TYPE"], "_handle_branch_services", "DEPOSIT_TYPE_MENU")
    ELSE IF message = "2"
    THEN Answer(session, "_handle_branch_services", "APPOINTMENT_PLACEHOLDER")
    ELSE IF message = "3"
    THEN Answer(session, "_handle_branch_services", "BRANCH_LOCATOR_PLACEHOLDER")
    ELSE Answer(session, "_handle_branch_services", "INVALID_OPTION" \o "\n" \o "BRANCH_SERVICES_MENU")

\* lines 448-472
_handle_deposit_type(session, message) ==
    IF message = "1"
    THEN Answer([session EXCEPT !.state = "CUSTOMER_TYPE", !.data = Put(@, "transaction_type", "CASH_DEPOSIT")], "_handle_deposit_type", "CUSTOMER_TYPE_MENU")
    ELSE IF message = "2"
    THEN Answer([session EXCEPT !.state = "CHEQUE_IMAGE", !.data = Put(@, "transaction_type", "CHEQUE_DEPOSIT")], "_handle_deposit_type", "CHEQUE_IMAGE_REQUEST")
    ELSE IF message = "3"
    THEN Answer([session EXCEPT !.state = "CUSTOMER_TYPE", !.data = Put(@, "transaction_type", "PAY_ORDER")], "_handle_deposit_type", "CUSTOMER_TYPE_MENU")
    ELSE Answer(session, "_handle_deposit_type", "INVALID_OPTION" \o "\n" \o "DEPOSIT_TYPE_MENU")

\* lines 478-501, for a text that is none of its options
_handle_customer_type(session, message) ==
    Answer(session, "_handle_customer_type", "INVALID_OPTION" \o "\n" \o "CUSTOMER_TYPE_MENU")

\* the texts a sender in conversation state state sends: the customer type
\* menu is the last one of the conversation that is followed
Sends(state) == IF state = "CUSTOMER_TYPE" THEN {" Hi ", "9"} ELSE MessageInputs

\* lines 345-397: route by the state of the session
_handle_state(session, message) ==
    CASE session.state = "MAIN_MENU" -> _handle_main_menu(session, message)
      [] session.state = "BRANCH_SERVICES" -> _handle_branch_services(session, message)
      [] session.state = "DEPOSIT_TYPE" -> _handle_deposit_type(session, message)
      [] session.state = "CUSTOMER_TYPE" -> _handle_customer_type(session, message)

\* lines 312-331: what process_message does to the session and what it
\* returns; handler None tells that no menu handler was called
ProcessMessageResult(phone_number, message_text) ==
    LET session == get_session(phone_number)
        message == Clean(message_text) IN
    IF _is_greeting(message)
    THEN [session |-> reset(session), handler |-> None, response |-> "GREETING"]
    ELSE IF is_expired(session)
    THEN [session |-> reset(session), handler |-> None, response |-> "SESSION_EXPIRED"]
    ELSE _handle_state(session, message)

\* lines 295-335: process_message; the caller holds the response
ProcessMessage(w, phone_number, message_text) ==
    LET r == ProcessMessageResult(phone_number, message_text) IN
    /\ procs[w].pc = "idle"
    /\ message_text \in Sends(get_session(phone_number).state)
    /\ _sessions' = Put(_sessions, SessionPhone(phone_number), r.session)
    /\ Goto(w, [pc |-> "responded", phone |-> SessionPhone(phone_number),
                message |-> Clean(message_text), handler |-> r.handler,
                response |-> r.response])
    /\ UNCHANGED <<store, keys, _otp_store, users>>

\* lines 137-145: cleanup_expired_sessions
CleanupExpiredSessions ==
    /\ _sessions' = Del(_sessions, {p \in DOMAIN _sessions : is_expired(_sessions[p])})
    /\ UNCHANGED <<store, procs, keys, _otp_store, users>>

\* SpecChat: messages of two senders arrive one after the other while the
\* clock advances
NextChat ==
    \/ Tick
    \/ \E phone \in ChatPhones, text \in MessageInputs : ProcessMessage("w1", phone, text)
    \/ CallDone("w1")
    \/ CleanupExpiredSessions

SpecChat == Init /\ [][NextChat]_vars


(* ---- AuthService.authenticate_user (services/auth_service.py) ---- *)

\* the usernames and passwords that login requests carry
UsernameInputs == Usernames \cup {"nobody"}
PasswordInputs == {"pw-teller1", "guess"}

\* what authenticate_user returns: (user, None) or (None, error_message)
Authenticated(username) == [user |-> <<username>>, error |-> None]
Rejected(error_message) == [user |-> None, error |-> <<error_message>>]

\* the caller of authenticate_user gets its answer
AuthReturn(w, username, password, result) ==
    Goto(w, [pc |-> "responded", username |-> username, password |-> password, result |-> result])

\* lines 37-51: the query and the refusals that write nothing; otherwise the
\* user is loaded into the session with the count it had
AuthRead(w, username, password) ==
    /\ procs[w].pc = "idle"
    /\ UNCHANGED <<store, keys, others>>
    /\ IF username \notin DOMAIN users
       THEN AuthReturn(w, username, password, Rejected("Invalid username or password"))
       ELSE IF users[username].is_locked
       THEN AuthReturn(w, username, password, Rejected("Account is locked. Please contact administrator."))
       ELSE IF ~users[username].is_active
       THEN AuthReturn(w, username, password, Rejected("Account is inactive. Please contact administrator."))
       ELSE Goto(w, [pc |-> "auth_commit", username |-> username,
                     password |-> password,
                     failed_login_attempts |-> users[username].failed_login_attempts])

\* the lock set only after more than 5 failed attempts
AuthCommitLocksLate(w) ==
    LET u == procs[w].username
        failed == procs[w].failed_login_attempts + 1 IN
    /\ procs[w].pc = "auth_commit"
    /\ IF ~verify_password(procs[w].password, users[u].password_hash)
       THEN /\ users' = [users EXCEPT ![u].failed_login_attempts = failed,
                                      ![u].is_locked = IF failed > 5 THEN TRUE ELSE @]
            /\ AuthReturn(w, u, procs[w].password, Rejected("Invalid username or password"))
       ELSE /\ users' = [users EXCEPT ![u].failed_login_attempts = 0,
                                      ![u].last_login_at = <<clock>>]
            /\ AuthReturn(w, u, procs[w].password, Authenticated(u))
    /\ UNCHANGED <<store, keys, _otp_store, _sessions>>

\* lines 54-72: count the failed attempt and lock at 5, or reset the count
\* and stamp the login; db.commit()
AuthCommit(w) ==
    LET u == procs[w].username
        failed == procs[w].failed_login_attempts + 1 IN
    /\ procs[w].pc = "auth_commit"
    /\ IF ~verify_password(procs[w].password, users[u].password_hash)
       THEN /\ users' = [users EXCEPT ![u].failed_login_attempts = failed,
                                      ![u].is_locked = IF failed >= 5 THEN TRUE ELSE @]
            /\ AuthReturn(w, u, procs[w].password, Rejected("Invalid username or password"))
       ELSE /\ users' = [users EXCEPT ![u].failed_login_attempts = 0,
                                      ![u].last_login_at = <<clock>>]
            /\ AuthReturn(w, u, procs[w].password, Authenticated(u))
    /\ UNCHANGED <<store, keys, _otp_store, _sessions>>

\* api/v1/users.py lines 225-235: an administrator unlocks the account
UnlockUser(u) ==
    /\ users' = [users EXCEPT ![u].is_locked = FALSE, ![u].failed_login_attempts = 0]
    /\ UNCHANGED <<store, procs, keys, _otp_store, _sessions>>

\* SpecLogin: login requests are served one after the other; between two
\* of them an administrator may unlock an account
NextLogin ==
    \/ Tick
    \/ \E username \in UsernameInputs, password \in PasswordInputs : AuthRead("w1", username, password)
    \/ AuthCommit("w1")
    \/ CallDone("w1")
    \/ procs["w1"].pc # "auth_commit" /\ \E u \in Usernames : UnlockUser(u)

SpecLogin == Init /\ [][NextLogin]_vars

(* ======================= the claims ======================= *)

\* worker w takes the step from pc a to pc b
Moves(w, a, b) == procs[w].pc = a /\ procs'[w].pc = b

\* the transactions built from slip d
RecordsOf(d) == {i \in 1..Len(transactions) : transactions[i].source_drid = d}

\* C1: of the complete calls that run concurrently on one token exactly one
\* succeeds: no complete returns success for a token that another complete
\* has already completed.
C1_ExactlyOnceCompletion ==
    [][\A w \in Workers :
          Moves(w, "complete_final", "idle")
              => slips[procs[w].drid].status # "COMPLETED"]_vars

\* C2: two create calls for the same account that run concurrently do not
\* both insert a token: when a create inserts, no slip for its account has
\* been inserted since its existing-active-slip query.
C2_IssuanceUniqueUnderRace ==
    [][\A w \in Workers :
          Moves(w, "create_insert", "idle")
              => \A d \in (procs[w].seen + 1)..Len(slips) :
                    slips[d].customer_account # procs[w].acct]_vars

\* C3 (I1): each account has at most one token whose status is INITIATED,
\* RETRIEVED or VERIFIED.
C3_I1_OneActivePerAccount ==
    \A d1 \in Drids, d2 \in Drids :
        /\ d1 # d2
        /\ slips[d1].customer_account = slips[d2].customer_account
        /\ slips[d1].status \in ActiveStatuses
        => slips[d2].status \notin ActiveStatuses

LegalEdges ==
    {<<"INITIATED", "RETRIEVED">>, <<"RETRIEVED", "VERIFIED">>,
     <<"VERIFIED", "PROCESSING">>, <<"PROCESSING", "COMPLETED">>,
     <<"PROCESSING", "VERIFIED">>, <<"INITIATED", "EXPIRED">>}
    \cup (ActiveStatuses \X {"CANCELLED", "REJECTED"})

\* C4 (I3): every status change of a token is one of the legal edges.
C4_I3_LegalEdges ==
    [][\A d \in Drids :
          slips'[d].status # slips[d].status
              => <<slips[d].status, slips'[d].status>> \in LegalEdges]_vars

\* C5 (I4): a token's transaction_id is set if and only if its status is
\* COMPLETED, and a COMPLETED token never changes status again.
C5_I4_CompletedLinked ==
    [][\A d \in Drids :
          /\ (slips'[d].transaction_id # 0) <=> (slips'[d].status = "COMPLETED")
          /\ slips[d].status = "COMPLETED" => slips'[d].status = "COMPLETED"]_vars

\* C6 (P5): when complete fails after it has written the transaction, no
\* transaction and no receipt of that attempt is visible once it has
\* returned.
C6_P5_CompletionAtomic ==
    [][\A w \in Workers :
          Moves(w, "complete_rollback", "idle")
              => /\ procs[w].txn \notin 1..Len(transactions')
                 /\ \A i \in 1..Len(receipts') :
                        receipts'[i].transaction_id # procs[w].txn]_vars

\* C7: when a step of complete fails after PROCESSING was set, complete
\* returns with the token VERIFIED and with completed_by and the
\* transaction link unset.
C7_RollbackToVerified ==
    [][\A w \in Workers :
          Moves(w, "complete_rollback", "idle")
              => /\ slips'[procs[w].drid].status = "VERIFIED"
                 /\ slips'[procs[w].drid].completed_by = NULL
                 /\ slips'[procs[w].drid].transaction_id = 0]_vars

\* C8: over any sequence of complete attempts on a token, failed and
\* retried ones included, at most one transaction is built from it, and
\* exactly one when it is COMPLETED.
C8_OneRecordPerToken ==
    \A d \in Drids :
        /\ Cardinality(RecordsOf(d)) <= 1
        /\ slips[d].status = "COMPLETED" => Cardinality(RecordsOf(d)) = 1

\* the slips of an account whose status is INITIATED, RETRIEVED or VERIFIED
ActiveOf(account) ==
    {d \in Drids : /\ slips[d].customer_account = account
                   /\ slips[d].status \in ActiveStatuses}

\* the slips of an account that are active and whose expires_at is still
\* after the current time
UnexpiredActiveOf(account) ==
    {d \in ActiveOf(account) : slips[d].expires_at > clock}

\* the EXISTING_SLIP answers naming a slip of D
AlreadyActive(D) == {Refuse("EXISTING_SLIP", "", d) : d \in D}

C10_TerminalAbsorbing ==
    [][\A d \in Drids :
          slips[d].status \in TerminalStatuses
              => /\ slips'[d].status = slips[d].status
                 /\ slips'[d].cancelled_by = slips[d].cancelled_by
                 /\ slips'[d].cancellation_reason = slips[d].cancellation_reason
                 /\ slips'[d].rejection_reason = slips[d].rejection_reason]_vars

\* C11: cancel and reject are admitted only on a token that is INITIATED,
\* RETRIEVED or VERIFIED (so not while a completion holds it in PROCESSING),
\* and no CANCELLED or REJECTED token has a transaction built from it.
C11_CancelRejectGuard ==
    \A d \in Drids :
        /\ CancelOutcome(d).ok => slips[d].status \in ActiveStatuses
        /\ RejectOutcome(d).ok => slips[d].status \in ActiveStatuses
        /\ slips[d].status \in {"CANCELLED", "REJECTED"} => RecordsOf(d) = {}

\* C12: once the clock is past a token's expires_at, its status only stays
\* as it is or becomes EXPIRED.
C12_NoTransitionAfterExpiry ==
    [][\A d \in Drids :
          clock > slips[d].expires_at /\ slips'[d].status # slips[d].status
              => slips'[d].status = "EXPIRED"]_vars

\* the steps of complete that write to the store
CompleteWrites ==
    {"complete_expire", "complete_processing", "complete_txn",
     "complete_receipt", "complete_final", "complete_rollback"}

\* C13: complete called on a token that is not VERIFIED, or without
\* authorization_captured, is refused and writes nothing: such a call never
\* gets to a step of complete that writes to the store.
C13_CompleteErrorsWithoutEffect ==
    /\ \A d \in Drids, auth \in BOOLEAN :
            slips[d].status # "VERIFIED" \/ ~auth
                => ~CompleteOutcome(d, auth).ok
    /\ \A d \in Drids, auth \in BOOLEAN :
            slips[d].status # "VERIFIED"
                => CompleteOutcome(d, auth).message # "DRID has expired"
    /\ \A w \in Workers :
            procs[w].pc \in CompleteWrites => procs[w].authorization_captured

\* C14 (P3): verify on a token that is not RETRIEVED is refused with an
\* error naming the token's status, and complete on a token that is not
\* VERIFIED is refused likewise; a verify gets to a step that writes only
\* from a RETRIEVED token, a complete (and so a new transaction) only from
\* a VERIFIED one.
C14_P3_NoIllegalTransitions ==
    /\ [](\A d \in Drids :
            /\ \A ac \in BOOLEAN, dv \in BOOLEAN, iv \in InstrumentInputs :
                    slips[d].status # "RETRIEVED"
                        => VerifyOutcome(d, ac, dv, iv)
                             = Refuse("Cannot verify: current status is",
                                      slips[d].status, d)
            /\ \A auth \in BOOLEAN :
                    slips[d].status # "VERIFIED"
                        => CompleteOutcome(d, auth)
                             = Refuse("Cannot complete: current status is",
                                      slips[d].status, d))
    /\ [][\A w \in Workers :
            /\ /\ procs[w].pc = "idle"
               /\ procs'[w].pc \in {"verify_commit", "verify_expire"}
               => slips[procs'[w].drid].status = "RETRIEVED"
            /\ procs[w].pc = "idle" /\ procs'[w].pc \in CompleteWrites
               => slips[procs'[w].drid].status = "VERIFIED"
            /\ Len(transactions') > Len(transactions) /\ procs'[w] # procs[w]
               => procs[w].pc = "complete_txn"]_vars

\* C14 witness: a COMPLETED token with its one transaction, on which both
\* verify and complete are refused with an error naming COMPLETED
C14_Witness ==
    \E d \in Drids :
        /\ slips[d].status = "COMPLETED"
        /\ Cardinality(RecordsOf(d)) = 1
        /\ VerifyOutcome(d, TRUE, TRUE, "True")
             = Refuse("Cannot verify: current status is", "COMPLETED", d)
        /\ CompleteOutcome(d, TRUE)
             = Refuse("Cannot complete: current status is", "COMPLETED", d)

\* C15: verify takes a RETRIEVED token to VERIFIED exactly when the token is
\* not expired, amount_confirmed and depositor_verified are true and, for
\* CHEQUE_DEPOSIT and PAY_ORDER only, instrument_verified is true; a verify
\* whose guard fails leaves the token RETRIEVED with verified_by unset.
C15_VerificationGuard ==
    /\ [](\A d \in Drids, ac \in BOOLEAN, dv \in BOOLEAN,
             iv \in InstrumentInputs :
            slips[d].status = "RETRIEVED" =>
                (VerifyOutcome(d, ac, dv, iv).ok
                    <=> /\ ~(clock > slips[d].expires_at)
                        /\ ac
                        /\ dv
                        /\ slips[d].transaction_type
                                \in {"CHEQUE_DEPOSIT", "PAY_ORDER"}
                            => iv = "True"))
    /\ [][\A w \in Workers :
            /\ Moves(w, "verify_commit", "idle")
                => /\ slips'[procs[w].drid].status = "VERIFIED"
                   /\ slips'[procs[w].drid].verified_by = procs[w].by
            /\ Moves(w, "verify_expire", "idle")
                => /\ slips'[procs[w].drid].status = "RETRIEVED"
                   /\ slips'[procs[w].drid].verified_by = NULL]_vars

\* C16: retrieve on an INITIATED token sets RETRIEVED and stamps
\* retrieved_by; retrieve on a token that is already RETRIEVED or VERIFIED
\* succeeds and leaves the token exactly as it was.
C16_RetrieveIdempotent ==
    /\ [](\A d \in Drids :
            slips[d].status \in {"RETRIEVED", "VERIFIED"}
                => /\ ValidationResult(slips[d]).is_valid
                   /\ RetrieveOutcome(slips[d]).ok)
    /\ [][\A w \in Workers :
            Moves(w, "retrieve_commit", "idle")
                => /\ slips[procs[w].drid].status = "INITIATED"
                        => /\ slips'[procs[w].drid].status = "RETRIEVED"
                           /\ slips'[procs[w].drid].retrieved_by = procs[w].by
                   /\ slips[procs[w].drid].status \in {"RETRIEVED", "VERIFIED"}
                        => slips'[procs[w].drid] = slips[procs[w].drid]]_vars

\* C17 (P2): once the clock is past a token's expires_at, validate never
\* reports is_valid = true, and for a token that is not used (COMPLETED,
\* PROCESSING) and not CANCELLED or REJECTED it reports is_expired = true
\* with status EXPIRED.
C17_P2_ExpiryReporting ==
    \A d \in Drids :
        clock > slips[d].expires_at =>
            /\ ~ValidationResult(slips[d]).is_valid
            /\ slips[d].status \notin {"COMPLETED", "PROCESSING",
                                      "CANCELLED", "REJECTED"}
                => /\ ValidationResult(slips[d]).is_expired
                   /\ ValidationResult(slips[d]).status = "EXPIRED"

\* the fields of the DRIDValidationResult that validate returns
Report(r) == [f \in (DOMAIN r) \ {"expire"} |-> r[f]]

\* C18: the only write validate makes to a token is the lazy
\* INITIATED -> EXPIRED status change, and a second validate with no clock
\* advance returns the same result as the first and writes nothing more.
C18_ValidateIdempotent ==
    [][\A w \in Workers :
          Moves(w, "validate_expire", "idle") =>
            LET d == procs[w].drid IN
            /\ slips'[d] = [slips[d] EXCEPT !.status = "EXPIRED"]
            /\ ~ValidationResult(slips'[d]).expire
            /\ Report(ValidationResult(slips'[d]))
                    = Report(ValidationResult(slips[d]))]_vars

\* C19: a token is created with validity_minutes as requested (60 when none
\* is requested) and expires_at = creation time + validity_minutes, and no
\* step changes the expires_at or validity_minutes of a stored token.
C19_ValidityFixed ==
    [][/\ \A d \in Drids :
            /\ slips'[d].expires_at = slips[d].expires_at
            /\ slips'[d].validity_minutes = slips[d].validity_minutes
       /\ \A w \in Workers :
            Moves(w, "create_insert", "idle") =>
                /\ Len(slips') = Len(slips) + 1
                /\ slips'[Len(slips')].validity_minutes
                        = IF procs[w].validity_minutes = 0 THEN 60
                          ELSE procs[w].validity_minutes
                /\ slips'[Len(slips')].expires_at
                        = clock + slips'[Len(slips')].validity_minutes]_vars

\* C19 witness: a token created at time 0 with no validity requested has
\* been taken to COMPLETED while the clock advanced, and still has
\* validity_minutes 60 and expires_at 60
C19_Witness ==
    \E d \in Drids :
        /\ slips[d].status = "COMPLETED"
        /\ clock > 0
        /\ slips[d].validity_minutes = 60
        /\ slips[d].expires_at = 60

C21_SignatureRoundTrip ==
    \A w \in Workers :
        (procs[w].pc = "verified"
            /\ procs[w].signing_timestamp = procs[w].signature_timestamp) =>
        IF procs[w].receipt_data = procs[w].signed
        THEN procs[w].result = [is_valid |-> TRUE, message |-> Authentic]
        ELSE procs[w].result = [is_valid |-> FALSE, message |-> Tampered]

\* C22: verifying unmodified fields and their signature with a signing
\* timestamp other than the one used at signing reports an invalid signature.
C22_TimestampSigned ==
    \A w \in Workers :
        (procs[w].pc = "verified"
            /\ procs[w].receipt_data = procs[w].signed
            /\ procs[w].signing_timestamp # procs[w].signature_timestamp) =>
        ~procs[w].result.is_valid

\* C27: a key pair is generated only while neither key file exists, and a
\* private key file, once written, keeps its key through every later step.
C27_KeyLifecycle ==
    [][/\ key_files'.generated # key_files.generated =>
                key_files.private = 0 /\ key_files.public = 0
       /\ key_files.private # 0 => key_files'.private = key_files.private]_vars

\* the fields of transaction are the ones the receipt was signed over
Unmodified(receipt, transaction) ==
    receipt.signature_hash = Sha256Hex(CreateSigningPayload(ReceiptData(receipt.receipt_number, transaction)))

\* C23: a verification that can use the signature service answers "not
\* signed" for a receipt stored without signature, "authentic" for a signed
\* receipt whose transaction fields are as signed and "tampered" for one
\* whose fields were changed, and the three messages differ.
C23_ThreeOutcomes ==
    /\ NotSigned # Authentic /\ NotSigned # Tampered /\ Authentic # Tampered
    /\ \A w \in Workers :
        (procs[w].pc = "receipt_verified"
            /\ procs[w].result.message # ServiceUnavailable) =>
        LET receipt == receipts[procs[w].receipt] IN
        IF receipt.digital_signature = None
        THEN procs[w].result = [is_valid |-> FALSE, message |-> NotSigned]
        ELSE IF Unmodified(receipt, procs[w].transaction)
        THEN procs[w].result = [is_valid |-> TRUE, message |-> Authentic]
        ELSE procs[w].result = [is_valid |-> FALSE, message |-> Tampered]

\* C24: a receipt stored without signature is flagged is_signature_valid =
\* false; the receipt step of complete, whether or not it can sign, stores
\* the receipt of the transaction and goes on (unsigned when the service is
\* not initialized), and the step after it marks the slip COMPLETED and
\* links it to the transaction.
C24_SigningDegrades ==
    /\ [](\A r \in 1..Len(receipts) :
            receipts[r].digital_signature = None => ~receipts[r].is_signature_valid)
    /\ [][\A w \in Workers :
            /\ (procs[w].pc = "complete_receipt" /\ SignReady(w)
                    /\ procs'[w] # procs[w]) =>
                /\ procs'[w].pc = "complete_final"
                /\ Len(receipts') = Len(receipts) + 1
                /\ receipts'[Len(receipts')].transaction_id = procs[w].txn
                /\ ~signature_service[w]._initialized =>
                        receipts'[Len(receipts')].digital_signature = None
            /\ (procs[w].pc = "complete_final" /\ procs'[w] # procs[w]) =>
                /\ slips'[procs[w].drid].status = "COMPLETED"
                /\ slips'[procs[w].drid].transaction_id = procs[w].txn
                /\ transactions'[procs[w].txn].source_drid = procs[w].drid
         ]_vars

C24_Witness ==
    \E d \in Drids, r \in 1..Len(receipts) :
        /\ slips[d].status = "COMPLETED"
        /\ receipts[r].transaction_id = slips[d].transaction_id
        /\ receipts[r].digital_signature = None
        /\ ~receipts[r].is_signature_valid
        /\ ~signature_service["w1"]._initialized

\* C25: the endpoint gets to its notifications only in the step that commits
\* the slip as COMPLETED with its transaction linked and a receipt stored,
\* and the notification step, failed or not, changes nothing in the store
\* and answers success.
C25_NotificationAfterCommit ==
    [][\A w \in Workers :
        /\ (procs'[w].pc = "notify" /\ procs[w].pc # "notify") =>
            /\ slips'[procs'[w].drid].status = "COMPLETED"
            /\ slips'[procs'[w].drid].transaction_id = procs'[w].txn
            /\ procs'[w].txn \in 1..Len(transactions')
            /\ \E r \in 1..Len(receipts') :
                    receipts'[r].transaction_id = procs'[w].txn
        /\ (procs[w].pc = "notify" /\ procs'[w] # procs[w]) =>
            /\ store' = store
            /\ procs'[w].pc = "responded" /\ procs'[w].success
      ]_vars

C25_Witness ==
    \E w \in Workers :
        /\ procs[w].pc = "responded"
        /\ ~procs[w].notified
        /\ procs[w].success
        /\ slips[procs[w].drid].status = "COMPLETED"
        /\ slips[procs[w].drid].transaction_id \in 1..Len(transactions)

\* C28: no transaction ever has more than one receipt.
C28_OneReceiptPerRecord ==
    \A r1, r2 \in 1..Len(receipts) :
        receipts[r1].transaction_id = receipts[r2].transaction_id => r1 = r2

\* C30: a verify_receipt_signature call changes neither slips nor
\* transactions and nothing of the receipts but the is_signature_valid flag
\* of the receipt it verifies, and when it has verified a signed receipt the
\* stored flag equals the result it returns.
C30_VerifyPure ==
    [][\A w \in Workers :
        (procs'[w].pc = "receipt_verified" /\ procs[w].pc # "receipt_verified") =>
            LET r == procs'[w].receipt IN
            /\ slips' = slips /\ transactions' = transactions
            /\ receipts' = [receipts EXCEPT ![r].is_signature_valid =
                                                receipts'[r].is_signature_valid]
            /\ receipts[r].digital_signature # None =>
                    receipts'[r].is_signature_valid = procs'[w].result.is_valid
      ]_vars

\* C26: no handler is ever left by an exception.
C26_NoExceptionCrosses ==
    \A w \in Workers : procs[w].pc # "raised"

\* the status changes of the scenario, in their order
ScenarioEdges == {<<"INITIATED", "RETRIEVED">>, <<"RETRIEVED", "VERIFIED">>, <<"VERIFIED", "PROCESSING">>, <<"PROCESSING", "COMPLETED">>}

\* C29: in the scenario a slip starts INITIATED and its status moves only
\* along INITIATED, RETRIEVED, VERIFIED, PROCESSING, COMPLETED; a COMPLETED
\* slip has exactly one transaction, created with the amount of the slip,
\* and exactly one receipt, created signed with is_signature_valid = true;
\* verifying the receipt answers authentic while the stored amount is the
\* signed one and tampered when the amount was changed.
C29_EndToEnd ==
    /\ [](\A d \in Drids :
            slips[d].status = "COMPLETED" =>
                /\ RecordsOf(d) = {slips[d].transaction_id}
                /\ \E r \in 1..Len(receipts) :
                    /\ receipts[r].transaction_id = slips[d].transaction_id
                    /\ receipts[r].digital_signature # None
                    /\ \A q \in 1..Len(receipts) :
                            receipts[q].transaction_id = slips[d].transaction_id => q = r)
    /\ [](\A w \in Workers :
            procs[w].pc = "receipt_verified" =>
                procs[w].result =
                    IF procs[w].transaction.amount = slips[procs[w].transaction.source_drid].amount
                    THEN [is_valid |-> TRUE, message |-> Authentic]
                    ELSE [is_valid |-> FALSE, message |-> Tampered])
    /\ [][/\ \A d \in 1..Len(slips') :
                IF d \in Drids
                THEN slips'[d].status # slips[d].status =>
                        <<slips[d].status, slips'[d].status>> \in ScenarioEdges
                ELSE slips'[d].status = "INITIATED"
          /\ Len(transactions') > Len(transactions) =>
                LET t == transactions'[Len(transactions')] IN
                t.amount = slips[t.source_drid].amount
          /\ Len(receipts') > Len(receipts) =>
                receipts'[Len(receipts')].is_signature_valid
         ]_vars

C29_Witness ==
    \E w \in Workers, d \in Drids :
        /\ procs[w].pc = "receipt_verified"
        /\ procs[w].result.message = Tampered
        /\ procs[w].transaction.amount # slips[d].amount
        /\ slips[d].status = "COMPLETED"
        /\ slips[d].transaction_id = receipts[procs[w].receipt].transaction_id
        /\ ~receipts[procs[w].receipt].is_signature_valid

\* C31: every validate result for a stored token reports
\* time_remaining = max(0, expires_at - now) in whole seconds; it is never
\* negative and it is 0 whenever now >= expires_at.
C31_TimeRemaining ==
    \A d \in Drids :
        LET r == ValidationResult(slips[d])
        IN /\ r.time_remaining = Max(0, (slips[d].expires_at - clock) * 60)
           /\ r.time_remaining >= 0
           /\ clock >= slips[d].expires_at => r.time_remaining = 0

\* a token that is past its expiry but was retrieved in time, so that the
\* answer carries the computed time_remaining
C31_Witness ==
    \E d \in Drids :
        /\ slips[d].status = "RETRIEVED"
        /\ clock > slips[d].expires_at
        /\ ValidationResult(slips[d]).time_remaining = 0

\* C32: while only validate calls and sweeps run on a token that was
\* INITIATED when it passed its expires_at, every validate answer for it
\* reports it expired (never valid), and once the stored status is EXPIRED it
\* stays EXPIRED.
C32_LazyExpirySafe ==
    /\ [](\A d \in Drids :
            clock > slips[d].expires_at
                => /\ slips[d].status \in {"INITIATED", "EXPIRED"}
                   /\ ValidationResult(slips[d]).is_expired
                   /\ ~ValidationResult(slips[d]).is_valid)
    /\ [][\A d \in Drids :
            slips[d].status = "EXPIRED" => slips'[d].status = "EXPIRED"]_vars

\* the expiry writes of validate (also inside retrieve) and of the sweep
ExpiryWrites == {"validate_expire", "retrieve_expire", "sweep_commit"}

\* C33: expiry does not race with forward transitions: an expiry write of
\* validate or of the sweep never changes the status of a token that a
\* retrieve, verify or complete has moved forward in the meantime (never
\* RETRIEVED -> EXPIRED by a stale write), and a token stored as EXPIRED is
\* never overwritten with RETRIEVED, VERIFIED, PROCESSING or COMPLETED.
C33_ExpiryNoRace ==
    [][\A d \in Drids :
          /\ (\E w \in Workers : /\ procs[w].pc \in ExpiryWrites
                                 /\ procs'[w].pc = "idle")
                => \/ slips'[d].status = slips[d].status
                   \/ slips[d].status
                        \notin {"RETRIEVED", "VERIFIED", "PROCESSING", "COMPLETED"}
          /\ slips[d].status = "EXPIRED"
                => slips'[d].status
                     \notin {"RETRIEVED", "VERIFIED", "PROCESSING", "COMPLETED"}]_vars

\* C34: with the clock advancing and the sweep running again and again,
\* every issued token eventually has a terminal status, also a token that
\* nobody touches again after it was RETRIEVED or VERIFIED.
C34_EventuallyTerminal ==
    \A d \in 1..MaxTokens :
        [](d \in Drids
            => <>(d \in Drids /\ slips[d].status \in TerminalStatuses))

\* C35: PROCESSING is transient: a token stored as PROCESSING eventually has
\* another status, also after the process running complete has died, and it
\* leaves PROCESSING only along a legal edge, to COMPLETED or to VERIFIED.
C35_ProcessingTransient ==
    /\ \A d \in 1..MaxTokens :
          [](d \in Drids /\ slips[d].status = "PROCESSING"
                => <>(d \in Drids /\ slips[d].status # "PROCESSING"))
    /\ [][\A d \in Drids :
            slips[d].status = "PROCESSING" /\ slips'[d].status # "PROCESSING"
                => slips'[d].status \in {"COMPLETED", "VERIFIED"}]_vars

\* C36: verify_otp returns success only when the supplied code equals the
\* code stored by the latest send_otp for the (token, phone) pair, the OTP has
\* not expired and fewer than 3 attempts were made before the call; a wrong
\* code is refused also after an earlier successful verification.
C36_OtpOnlyOnMatch ==
    \A phone \in PhoneInputs, d \in Drids, otp \in OtpCodes :
        VerifyOtpOutcome(phone, d, otp).success
            => /\ OtpKey(phone, d) \in DOMAIN _otp_store
               /\ _otp_store[OtpKey(phone, d)].otp = otp
               /\ clock <= _otp_store[OtpKey(phone, d)].expires_at
               /\ _otp_store[OtpKey(phone, d)].attempts < MAX_ATTEMPTS

\* the OTP records of token d
OtpOf(d) == {k \in DOMAIN _otp_store : _otp_store[k].drid = d}

\* C37: completion is independent of the OTP state: a step that changes
\* only the OTP store (an OTP sent, verified, used up or removed) changes the
\* answer of complete for no token and no argument, and a complete call gets
\* to the writes of its transaction only with the caller's
\* authorization_captured flag.
C37_CompleteIgnoresOtp ==
    /\ [][_otp_store' # _otp_store
            => \A d \in Drids, auth \in BOOLEAN :
                    CompleteOutcome(d, auth)' = CompleteOutcome(d, auth)]_vars
    /\ [](\A w \in Workers :
            procs[w].pc \in CompleteWrites \ {"complete_expire"}
                => procs[w].authorization_captured)

\* a token was completed while the OTP sent for it was used up without ever
\* being verified
C37_Witness ==
    \E d \in Drids :
        /\ slips[d].status = "COMPLETED"
        /\ OtpOf(d) # {}
        /\ \A k \in OtpOf(d) : /\ ~_otp_store[k].verified
                               /\ _otp_store[k].attempts = MAX_ATTEMPTS

\* C38: the canonical payload is injective on field tuples: when the tuple
\* verified differs from the tuple signed in a canonical field, their payload
\* strings differ and the signature does not verify, also when field values
\* hold the delimiter "|" or the "name:" label text.
C38_PayloadInjective ==
    \A w \in Workers :
        /\ procs[w].pc = "verified"
        /\ \E f \in CanonicalFields : procs[w].receipt_data[f] # procs[w].signed[f]
        => /\ CreateSigningPayload(procs[w].receipt_data)
                # CreateSigningPayload(procs[w].signed)
           /\ ~procs[w].result.is_valid

\* C39: when a message that is not a greeting arrives for a session whose
\* last activity is more than 30 minutes old, process_message resets the
\* session to MAIN_MENU with empty data and answers SESSION_EXPIRED without
\* calling a menu handler.
C39_SessionExpiry ==
    [][\A w \in Workers :
          /\ procs[w].pc = "idle"
          /\ procs'[w].pc = "responded"
          /\ "phone" \in DOMAIN procs'[w]
          /\ procs'[w].phone \in DOMAIN _sessions
          /\ clock > _sessions[procs'[w].phone].updated_at + TIMEOUT_MINUTES
          /\ ~_is_greeting(procs'[w].message)
          => /\ _sessions'[procs'[w].phone].state = "MAIN_MENU"
             /\ _sessions'[procs'[w].phone].data = NoEntries
             /\ procs'[w].response = "SESSION_EXPIRED"
             /\ procs'[w].handler = None]_vars

\* an authenticate_user call of w for user u with password p gets its answer
\* in this step
Answers(w, u, p) ==
    /\ procs[w].pc \in {"idle", "auth_commit"}
    /\ procs'[w].pc = "responded"
    /\ "result" \in DOMAIN procs'[w]
    /\ procs'[w].username = u
    /\ procs'[w].password = p

====
